---- MODULE Spec2Model ----
(***************************************************************************)
(* A model of the DeviantArt (Eclipse API) extractor of gallery-dl:        *)
(*   - DeviantartEclipseAPI._pagination   (offset / cursor paging)         *)
(*   - DeviantartExtractor.items / _eclipse_deviation (message emission)   *)
(*   - DeviantartExtractor._fetch_premium (premium folder cache)           *)
(*   - DeviantartExtractor._extract_comments (comment work-list)           *)
(*   - DeviantartExtractor._tiptap_process_text (inline marks)             *)
(*   - DeviationMedia.src (media source URL)                               *)
(* Each part has its own specification over the shared variables; the      *)
(* variables of the other parts stay at their initial value.               *)
(***************************************************************************)
EXTENDS Integers, Sequences, FiniteSets, TLC

\* Python's None
NULL == -1

\* ----------------------------------------------------------------- bounds
\* size of the largest server-side result set
MaxItems == 6
\* the "limit" request parameter (24 or 50 in the callers)
PageSize == 2
\* requests one pagination run may issue in the model
MaxReq == 4
\* deviation ids are 1..MaxId
MaxId == 2
\* _fetch_premium calls of one run in the model
MaxPremCalls == 3
\* items one run of items() is handed by deviations()
MaxQueue == 2
\* comments of the largest reply tree
MaxComments == 4
\* comment ids of the servers whose pages form no tree
MaxLooseIds == 2
\* entries of results the model records
MaxResults == 6
\* marks of a text node
MaxMarks == 3
\* format variants of a media candidate
MaxVariants == 2
\* the clock of the throttle stops at MaxTime seconds
MaxTime == 8
\* _limited_request calls of one process in the model
MaxThrCalls == 3
\* top-level blocks of a document
MaxBlocks == 2
\* runs of the validator over one Deviation
MaxRuns == 2
\* _fetch_premium calls over all instances
MaxCoCalls == 3
\* additional files of a multi-image deviation
MaxFiles == 2

\* the 2.0 seconds of _limited_request
MinInterval == 2

VARIABLES
    \* ---- _pagination -----------------------------------------------
    srvN,       \* server: number of items of the listing (ids 1..srvN)
    srvVis,     \* server: the items this session may see
    offset,     \* params["offset"] (NULL = None)
    cursor,     \* params["cursor"] (NULL = None or absent)
    warn,       \* local `warn`
    warnings,   \* number of "Private deviations detected!" warnings logged
    yielded,    \* the items yielded so far
    ppc,        \* "call" (about to issue a request) or "done" (returned)
    nreq,       \* requests issued
    missing,    \* a response lacked the results key
    lastPage,   \* the response handled last
    \* ---- _fetch_premium --------------------------------------------
    cfgToken,      \* api.refresh_token_key is set
    cfgAutoWatch,  \* config("auto-watch")
    cfgAutoUnwatch,\* config("auto-unwatch")
    premiumCache,  \* self._premium_cache: id -> 0 (None) or the item's id
    unwatch,       \* self.unwatch (the usernames appended so far)
    premDisabled,  \* self._fetch_premium was replaced by lambda _: None
    premWarned,    \* "no refresh-token" warnings logged
    premCalls,     \* _fetch_premium calls made
    premLast,      \* the last _fetch_premium call: arguments, result, requests
    \* ---- items / _eclipse_deviation --------------------------------
    cfgJournal,    \* self.commit_journal is set
    cfgPreviews,   \* "off", "nonimage" (previews = True) or "all"
    remaining,     \* items deviations() has still to deliver
    xpc,           \* "running", "finished" or "raised" (exception left items())
    item,           \* the item resolved last
    out,           \* the messages the last item yielded
    itemRaised,     \* the last item's resolution raised
    handled,       \* items resolved so far
    \* ---- _extract_comments -----------------------------------------
    cmtPages,      \* server: anchor (0 = None) -> the page api.comments returns
    commentIds,    \* the work-list comment_ids
    results,       \* the list results ([] also stands for None)
    cpc,           \* "loop" or "done" (returned)
    cmtCut,        \* results grew past MaxResults
    cmtFetches,    \* api.comments requests made, modulo 2
    \* ---- _tiptap_process_text --------------------------------------
    textNode,      \* the text node: marks and text
    textHtml,      \* the pieces appended to html
    textWarnings,  \* "Unsupported text marker" warnings logged
    tpc,           \* "start" or "done"
    \* ---- DeviationMedia.src ----------------------------------------
    media,         \* the media candidate
    mediaSrc,      \* the value of its src property
    mpc,           \* "start" or "done"
    \* ---- _limited_request ------------------------------------------
    now,           \* time.time()
    lastRequest,   \* DeviantartExtractor._last_request
    thrInst,       \* the instances that made the calls, in order
    thrAsked,      \* the seconds the last call asked self.sleep for
    thrPrev,       \* _last_request when the last call was made
    thrStart,      \* when the request of the last call started
    thrCalls,      \* calls made
    \* ---- _tiptap_to_html -------------------------------------------
    doc,           \* data["document"]["content"]
    rHtml,         \* the list html
    rDone,         \* blocks of doc processed
    rWarnings,     \* "Unsupported content type" warnings logged
    rpc,           \* "loop", "done" or "raised"
    \* ---- Deviation._validate_extended ------------------------------
    extMedia,      \* the Deviation under validation
    extInitial,    \* the extension its payload carried
    extRuns,       \* runs of the validator over it
    extRaised,     \* the last run raised
    \* ---- _fetch_premium on several extractor instances ---------------
    coState,       \* per instance: _premium_cache, unwatch, disabled, warned
    coLast,        \* the last call: instance, id, value returned, caches before
    coCalls,       \* calls made
    \* ---- _extract_journal ------------------------------------------
    jItem,         \* the item handed to the journal step, and the option
    jRet,          \* what _extract_journal returned
    jOut,          \* the messages the journal step yielded
    jFetches,      \* _limited_request calls made
    jpc,           \* "start" or "done"
    \* ---- _extract_content ------------------------------------------
    ctCfg,         \* original, jwt, intermediary, quality
    ctItem,        \* the item: content["src"], index, is_downloadable
    ctRet,         \* content["src"], _fallback and is_original afterwards
    ctpc,          \* "start" or "done"
    \* ---- DeviantartDeviationExtractor.deviations ---------------------
    galFiles,      \* extended["additionalMedia"]: the file ids
    galDev,        \* the deviation dict
    galYielded,    \* the items handed to the resolution, as they were then
    galpc          \* "start", "files" or "done"

pagVars == <<srvN, srvVis, offset, cursor, warn, warnings, yielded, ppc,
             nreq, missing, lastPage>>

premVars == <<cfgToken, cfgAutoWatch, cfgAutoUnwatch, premiumCache, unwatch,
              premDisabled, premWarned, premCalls, premLast>>

itemVars == <<cfgJournal, cfgPreviews, remaining, xpc, item, out, itemRaised,
              handled>>

cmtVars == <<cmtPages, commentIds, results, cpc, cmtCut, cmtFetches>>

textVars == <<textNode, textHtml, textWarnings, tpc>>

mediaVars == <<media, mediaSrc, mpc>>

thrVars == <<now, lastRequest, thrInst, thrAsked, thrPrev, thrStart, thrCalls>>

renVars == <<doc, rHtml, rDone, rWarnings, rpc>>

extVars == <<extMedia, extInitial, extRuns, extRaised>>

coVars == <<coState, coLast, coCalls>>

jouVars == <<jItem, jRet, jOut, jFetches, jpc>>

conVars == <<ctCfg, ctItem, ctRet, ctpc>>

galVars == <<galFiles, galDev, galYielded, galpc>>

moreVars == <<coVars, jouVars, conVars, galVars>>

auxVars == <<thrVars, renVars, extVars, moreVars>>

vars == <<pagVars, premVars, itemVars, cmtVars, textVars, mediaVars, auxVars>>

\* ------------------------------------------------------------ sequences
RECURSIVE SeqRange(_, _, _)
\* the members of S between lo and hi, ascending
SeqRange(S, lo, hi) ==
    IF lo > hi THEN <<>>
    ELSE (IF lo \in S THEN <<lo>> ELSE <<>>) \o SeqRange(S, lo + 1, hi)

Min(a, b) == IF a < b THEN a ELSE b

NoDuplicates(s) == \A i, j \in 1..Len(s) : i # j => s[i] # s[j]

\* ---------------------------------------------------------- _pagination
\* The listing endpoint as _pagination reads it: the page window starts at
\* the requested position, private items are left out of the page (the case
\* the warning is about), hasMore tells whether items follow the window.
\* sig is how this response names the continuation.
NoPage == [present |-> FALSE, results |-> <<>>, hasMore |-> FALSE,
           sig |-> "none", next |-> 0]

Position(off, c) == IF c # NULL THEN c ELSE IF off # NULL THEN off ELSE 0

ServerPage(pos, sig, present) ==
    [present |-> present,
     results |-> SeqRange(srvVis, pos + 1, Min(pos + PageSize, srvN)),
     hasMore |-> pos + PageSize < srvN,
     sig     |-> sig,
     next    |-> pos + PageSize]

\* results is None: line 1050
ResultsNeverMissing(data) == FALSE

ResultsMissing(data) == ~data.present

\* the flag `warn` is not looked at
WarnsEveryTime(w, data) == Len(data.results) < PageSize /\ data.hasMore

\* the condition of line 1052
Warns(w, data) == Len(data.results) < PageSize /\ w /\ data.hasMore

\* local `warn` after the check of lines 1052-1057
WarnAfter(w, data) == IF Warns(w, data) THEN FALSE ELSE w

\* the nextCursor branch leaves params["offset"] as it is
AdvanceParamsKeepOffset(off, c, data) ==
    IF data.sig = "cursor"
    THEN [stop |-> FALSE, offset |-> off, cursor |-> data.next]
    ELSE IF data.sig = "offset"
    THEN [stop |-> FALSE, offset |-> data.next, cursor |-> NULL]
    ELSE IF off = NULL
    THEN [stop |-> TRUE, offset |-> off, cursor |-> c]
    ELSE [stop |-> FALSE, offset |-> off + Len(data.results), cursor |-> c]

\* the nextOffset branch leaves params["cursor"] as it is
AdvanceParamsKeepCursor(off, c, data) ==
    IF data.sig = "cursor"
    THEN [stop |-> FALSE, offset |-> NULL, cursor |-> data.next]
    ELSE IF data.sig = "offset"
    THEN [stop |-> FALSE, offset |-> data.next, cursor |-> c]
    ELSE IF off = NULL
    THEN [stop |-> TRUE, offset |-> off, cursor |-> c]
    ELSE [stop |-> FALSE, offset |-> off + Len(data.results), cursor |-> c]

\* the if/elif chain that ends the loop body
AdvanceParams(off, c, data) ==
    IF data.sig = "cursor"
    THEN [stop |-> FALSE, offset |-> NULL, cursor |-> data.next]
    ELSE IF data.sig = "offset"
    THEN [stop |-> FALSE, offset |-> data.next, cursor |-> NULL]
    ELSE IF off = NULL
    THEN [stop |-> TRUE, offset |-> off, cursor |-> c]
    ELSE [stop |-> FALSE, offset |-> off + Len(data.results), cursor |-> c]

\* one iteration of the while loop
PaginationStep(data) ==
    /\ ppc = "call"
    /\ nreq < MaxReq
    /\ nreq' = nreq + 1
    /\ lastPage' = data
    /\ UNCHANGED <<srvN, srvVis, premVars, itemVars, cmtVars, textVars, mediaVars, auxVars>>
    /\ IF ResultsMissing(data)
       THEN /\ ppc' = "done"
            /\ missing' = TRUE
            /\ UNCHANGED <<offset, cursor, warn, warnings, yielded>>
       ELSE /\ warn' = WarnAfter(warn, data)
            /\ warnings' = IF Warns(warn, data) THEN warnings + 1 ELSE warnings
            /\ yielded' = yielded \o data.results
            /\ UNCHANGED missing
            /\ IF ~data.hasMore
               THEN /\ ppc' = "done"
                    /\ UNCHANGED <<offset, cursor>>
               ELSE LET adv == AdvanceParams(offset, cursor, data) IN
                    /\ ppc' = IF adv.stop THEN "done" ELSE "call"
                    /\ offset' = adv.offset
                    /\ cursor' = adv.cursor

Paginate ==
    \E sig \in {"cursor", "offset", "none"}, present \in BOOLEAN :
        PaginationStep(ServerPage(Position(offset, cursor), sig, present))

\* The params of the callers: "offset" is 0 (lines 975-1029), or the caller
\* of search_deviations passes params without paging keys (lines 998-1000)
PagInit ==
    /\ srvN \in 0..MaxItems
    /\ srvVis \in SUBSET (1..srvN)
    /\ offset \in {0, NULL}
    /\ cursor = NULL
    /\ warn = TRUE
    /\ warnings = 0
    /\ yielded = <<>>
    /\ ppc = "call"
    /\ nreq = 0
    /\ missing = FALSE
    /\ lastPage = NoPage

PagIdle ==
    /\ srvN = 0
    /\ srvVis = {}
    /\ offset = 0
    /\ cursor = NULL
    /\ warn = TRUE
    /\ warnings = 0
    /\ yielded = <<>>
    /\ ppc = "done"
    /\ nreq = 0
    /\ missing = FALSE
    /\ lastPage = NoPage

\* -------------------------------------------------------- _fetch_premium
Ids == 1..MaxId
Users == {"u1", "u2"}

\* What the remote side answers during one _fetch_premium call:
\*   gate    "premium_folder_data" is in the fetched detail
\*   flag    folder["has_access"]
\*   type    folder["type"]
\*   user    dev["author"]["username"]
\*   watchOk the result of api.user_friends_watch
\*   sibs    the ids api.gallery returns for the folder
PremEnvs ==
    [gate : BOOLEAN, flag : BOOLEAN, type : {"watchers", "paid"},
     user : Users, watchOk : BOOLEAN, sibs : SUBSET Ids]

NoEnv == [gate |-> FALSE, flag |-> FALSE, type |-> "paid", user |-> "u1",
          watchOk |-> FALSE, sibs |-> {}]

NoCall == [id |-> 0, ret |-> 0, calls |-> {}, hit |-> FALSE, access |-> FALSE,
           env |-> NoEnv, before |-> <<>>]

\* the gate's flag alone decides
HasAccessFlagOnly(env) == env.flag

\* has_access of line 832
HasAccess(env) == ~env.gate \/ env.flag

\* the auto-watch attempt is made (line 834)
TriesWatch(env, autoWatch) ==
    ~HasAccess(env) /\ env.type = "watchers" /\ autoWatch

\* every sibling is cached as its item, whatever has_access is
CacheSiblingsGranted(cache, sibs, access) ==
    [x \in (DOMAIN cache) \cup sibs |-> IF x \in sibs THEN x ELSE cache[x]]

\* the cache after the loop of lines 853-856
CacheSiblings(cache, sibs, access) ==
    [x \in (DOMAIN cache) \cup sibs |->
        IF x \in sibs THEN (IF access THEN x ELSE 0) ELSE cache[x]]

\* cache.get(id)
CacheGet(cache, id) == IF id \in DOMAIN cache THEN cache[id] ELSE 0

\* the lookup of line 817 never finds an entry
CacheHitNever(cache, id) == FALSE

\* self._premium_cache[id] of line 817 does not raise KeyError
CacheHit(cache, id) == id \in DOMAIN cache

\* the warning is logged and None returned; _fetch_premium stays as it is
NoCredentialStaysOn(cache, unw, warned) ==
    [cache |-> cache, unwatch |-> unw, disabled |-> FALSE,
     warned |-> warned + 1, ret |-> 0, calls |-> {}, hit |-> FALSE,
     access |-> FALSE]

\* lines 821-825: the warning, self._fetch_premium = lambda _: None
NoCredential(cache, unw, warned) ==
    [cache |-> cache, unwatch |-> unw, disabled |-> TRUE,
     warned |-> warned + 1, ret |-> 0, calls |-> {}, hit |-> FALSE,
     access |-> FALSE]

\* One call of self._fetch_premium(deviation): the extractor's fields after
\* it, the value returned (0 = None) and the remote requests it made.
FetchPremium(cache, unw, disabled, warned, id, env, token, autoWatch, autoUnwatch) ==
    IF disabled
    THEN [cache |-> cache, unwatch |-> unw, disabled |-> TRUE,
          warned |-> warned, ret |-> 0, calls |-> {}, hit |-> FALSE,
          access |-> FALSE]
    ELSE IF CacheHit(cache, id)
    THEN [cache |-> cache, unwatch |-> unw, disabled |-> FALSE,
          warned |-> warned, ret |-> cache[id], calls |-> {}, hit |-> TRUE,
          access |-> FALSE]
    ELSE IF ~token
    THEN NoCredential(cache, unw, warned)
    ELSE LET try    == TriesWatch(env, autoWatch)
             access == HasAccess(env) \/ (try /\ env.watchOk)
             unw2   == IF try /\ autoUnwatch THEN Append(unw, env.user) ELSE unw
             cache2 == CacheSiblings(cache, env.sibs, access)
         IN  [cache |-> cache2, unwatch |-> unw2, disabled |-> FALSE,
              warned |-> warned, ret |-> CacheGet(cache2, id),
              calls |-> {"deviation", "gallery"}
                        \cup (IF try THEN {"watch"} ELSE {}),
              hit |-> FALSE, access |-> access]

\* the premium fields take the outcome r of a call for id under env
PremiumApply(r, id, env) ==
    /\ premiumCache' = r.cache
    /\ unwatch' = r.unwatch
    /\ premDisabled' = r.disabled
    /\ premWarned' = r.warned
    /\ premCalls' = premCalls + 1
    /\ premLast' = [id |-> id, ret |-> r.ret, calls |-> r.calls, hit |-> r.hit,
                    access |-> r.access, env |-> env, before |-> premiumCache]
    /\ UNCHANGED <<cfgToken, cfgAutoWatch, cfgAutoUnwatch>>

PremiumOutcome(id, env) ==
    FetchPremium(premiumCache, unwatch, premDisabled, premWarned, id, env,
                 cfgToken, cfgAutoWatch, cfgAutoUnwatch)

\* a gated item reaches _fetch_premium
PremiumCall ==
    /\ premCalls < MaxPremCalls
    /\ \E id \in Ids, env \in PremEnvs :
           PremiumApply(PremiumOutcome(id, env), id, env)
    /\ UNCHANGED <<pagVars, itemVars, cmtVars, textVars, mediaVars, auxVars>>

PremConfig ==
    /\ cfgToken \in BOOLEAN
    /\ cfgAutoWatch \in BOOLEAN
    /\ cfgAutoUnwatch \in BOOLEAN

PremStart ==
    /\ premiumCache = <<>>
    /\ unwatch = <<>>
    /\ premDisabled = FALSE
    /\ premWarned = 0
    /\ premCalls = 0
    /\ premLast = NoCall

PremInit == PremConfig /\ PremStart

\* the premium configuration of the item runs: no auto-watch
ItemPremInit ==
    /\ cfgToken \in BOOLEAN
    /\ cfgAutoWatch = FALSE
    /\ cfgAutoUnwatch = FALSE
    /\ PremStart

PremIdle ==
    /\ cfgToken = FALSE
    /\ cfgAutoWatch = FALSE
    /\ cfgAutoUnwatch = FALSE
    /\ PremStart

\* ------------------------------------------- items / _eclipse_deviation
\* An item as _eclipse_deviation reads it:
\*   isDeleted, pcp        the fields of those names
\*   idKey                 the item has the key "deviationid" (the payloads
\*                         of the Eclipse API name it "deviationId")
\*   multiParent           isMultiImage and no "extended" data
\*   locked                tierAccess = "locked"
\*   isDownloadable, uuid  the flag, and whether "uuid" is set
\*   media                 "none" (falsy), "ok", or "notoken" (no token list)
\*   content               "none" (no such key), "ok", or "nokey" (a key the
\*                         transform reads is missing)
\*   videos                the "quality" labels of the list, in list order
\*   flash, preview        whether the key is in the item
\*   journal               _extract_journal finds a journal
\*   extKind               MIME class of the primary source's extension
L480 == <<"4", "8", "0", "p">>
L720 == <<"7", "2", "0", "p">>
L1080 == <<"1", "0", "8", "0", "p">>

VideoLists == {<<>>, <<L480, L1080, L720>>, <<L720, L480>>}

Shapes ==
    [isDeleted : BOOLEAN, idKey : BOOLEAN, multiParent : BOOLEAN,
     locked : BOOLEAN,
     pcp : BOOLEAN, isDownloadable : BOOLEAN, uuid : BOOLEAN,
     media : {"none", "ok", "notoken"}, content : {"none", "ok", "nokey"},
     videos : VideoLists, flash : BOOLEAN, journal : BOOLEAN,
     preview : BOOLEAN, extKind : {"image", "other", "unknown"}]

Plain == [isDeleted |-> FALSE, idKey |-> TRUE, multiParent |-> FALSE, locked |-> FALSE,
          pcp |-> FALSE, isDownloadable |-> FALSE, uuid |-> FALSE,
          media |-> "none", content |-> "none", videos |-> <<>>,
          flash |-> FALSE, journal |-> FALSE, preview |-> FALSE,
          extKind |-> "other"]

\* the item is dropped or re-queued before the pcp check
Early(d) == d.isDeleted \/ d.multiParent \/ d.locked

\* The items of the model: every shape of an item that reaches the emission
\* steps, and one item for each way of leaving before them. extKind varies
\* where the preview step can read the primary source's extension, idKey
\* where the item leaves at a step that reads the key for its log record.
ItemShape(d) ==
        /\ ~d.idKey => (d.isDeleted \/ (~d.multiParent /\ d.locked))
        /\ Early(d) =>
              /\ d.isDownloadable = FALSE /\ d.media # "notoken"
              /\ d.content = "none" /\ d.videos = <<>> /\ ~d.flash
              /\ ~d.journal /\ ~d.preview
        /\ ~d.isDownloadable => ~d.uuid
        /\ d.media # "none" => d.content = "none"
        /\ d.extKind # "other" =>
              /\ d.preview /\ d.videos = <<>> /\ ~d.flash
              /\ \/ d.isDownloadable /\ d.uuid
                 \/ d.media = "ok"
                 \/ d.content = "ok"

Items == {d \in Shapes : ItemShape(d)}

\* A message: its type, the step that yielded it and, of a Url, the url
\* (as pieces), the "quality" label of the target and deviation["is_original"]
\* when it was yielded ("byurl" = the value commit derives from the url)
Msg(type, stage) ==
    [type |-> type, stage |-> stage, src |-> <<>>, quality |-> <<>>,
     original |-> "unset"]

Url(stage, src, quality, original) ==
    [type |-> "Url", stage |-> stage, src |-> src, quality |-> quality,
     original |-> original]

\* the resolution of one item: the messages yielded so far, whether an
\* exception was raised, deviation["extension"] ("unset" = no such key) and
\* deviation["is_original"] ("unset" = no such key)
Yield(r, type, stage, ext) ==
    [r EXCEPT !.out = Append(@, Msg(type, stage)), !.ext = ext]

Raise(r) == [r EXCEPT !.raised = TRUE]

\* deviation["is_original"] = v
SetOriginal(r, v) == [r EXCEPT !.orig = v]

\* yield self.commit(deviation, target): lines 298-308
Commit(r, stage, src, quality, ext) ==
    LET o == IF r.orig = "unset" THEN "byurl" ELSE r.orig
    IN  [r EXCEPT !.out = Append(@, Url(stage, src, quality, o)),
                  !.ext = ext, !.orig = o]

\* deviation["media"] of an item whose media is not falsy
ItemMedia(d) ==
    [baseUri |-> <<"https://x/i">>,
     token   |-> IF d.media = "ok" THEN <<"tok", "tok2">> ELSE <<>>]

\* token[-1] is appended
ExtractMediaLastToken(m) ==
    IF m.token = <<>> THEN [ok |-> FALSE, val |-> <<>>]
    ELSE [ok |-> TRUE,
          val |-> m.baseUri \o <<"?token=">> \o <<m.token[Len(m.token)]>>]

\* _extract_media: the "src" it sets, or the exception of line 702
ExtractMedia(m) ==
    IF m.token = <<>> THEN [ok |-> FALSE, val |-> <<>>]
    ELSE [ok |-> TRUE, val |-> m.baseUri \o <<"?token=">> \o <<Head(m.token)>>]

Digits == <<"0", "1", "2", "3", "4", "5", "6", "7", "8", "9">>

DigitValue(ch) == (CHOOSE i \in DOMAIN Digits : Digits[i] = ch) - 1

RECURSIVE Decimal(_)
\* int() of a string of digits
Decimal(str) ==
    IF str = <<>> THEN 0
    ELSE 10 * Decimal(SubSeq(str, 1, Len(str) - 1)) + DigitValue(str[Len(str)])

\* text.parse_int: int(value), or 0 when int() raises
ParseInt(str) ==
    IF str # <<>> /\ \A i \in DOMAIN str : \E k \in DOMAIN Digits : Digits[k] = str[i]
    THEN Decimal(str) ELSE 0

\* the key of line 162: x["quality"][:-1] read as an integer
QualityKey(label) == ParseInt(SubSeq(label, 1, Len(label) - 1))

\* the first variant of the list is taken
SelectVideoFirst(videos) == videos[1]

\* max(deviation["videos"], key=...): the first variant of the largest key
SelectVideo(videos) ==
    videos[CHOOSE i \in DOMAIN videos :
              /\ \A j \in DOMAIN videos :
                    QualityKey(videos[j]) <= QualityKey(videos[i])
              /\ \A j \in 1..(i - 1) :
                    QualityKey(videos[j]) < QualityKey(videos[i])]

\* lines 145-146
StageDirectory(d, r) ==
    IF r.raised THEN r ELSE Yield(r, "Directory", "directory", r.ext)

\* the inline media is taken before the download is looked at
StagePrimaryMediaFirst(d, r) ==
    IF r.raised THEN r
    ELSE IF d.media # "none"
    THEN LET m == ExtractMedia(ItemMedia(d))
         IN  IF ~m.ok THEN Raise(r)
             ELSE Commit(r, "media", m.val, <<>>, d.extKind)
    ELSE IF d.isDownloadable /\ d.uuid
    THEN Commit(SetOriginal(r, "true"), "download", <<"download.src">>, <<>>,
                d.extKind)
    ELSE IF d.content # "none"
    THEN (IF d.content = "nokey" THEN Raise(r)
          ELSE Commit(r, "content", <<"content.src">>, <<>>, d.extKind))
    ELSE r

\* lines 149-158
StagePrimary(d, r) ==
    IF r.raised THEN r
    ELSE IF d.isDownloadable /\ d.uuid
    THEN Commit(SetOriginal(r, "true"), "download", <<"download.src">>, <<>>,
                d.extKind)
    ELSE IF d.media # "none"
    THEN LET m == ExtractMedia(ItemMedia(d))
         IN  IF ~m.ok THEN Raise(r)
             ELSE Commit(r, "media", m.val, <<>>, d.extKind)
    ELSE IF d.content # "none"
    THEN (IF d.content = "nokey" THEN Raise(r)
          ELSE Commit(r, "content", <<"content.src">>, <<>>, d.extKind))
    ELSE r

\* lines 160-164
StageVideo(d, r) ==
    IF r.raised \/ d.videos = <<>> THEN r
    ELSE Commit(SetOriginal(r, "false"), "video", <<"video.src">>,
                SelectVideo(d.videos), "other")

\* lines 166-168
StageFlash(d, r) ==
    IF r.raised \/ ~d.flash THEN r
    ELSE Commit(SetOriginal(r, "true"), "flash", <<"flash.src">>, <<>>, "other")

\* lines 170-176
StageJournal(d, r, journals) ==
    IF r.raised \/ ~journals \/ ~d.journal THEN r
    ELSE Commit(SetOriginal(r, "true"), "journal", <<"journal.src">>, <<>>,
                "other")

\* lines 192-202
StagePreview(d, r, previews) ==
    IF r.raised \/ previews = "off" \/ ~d.preview THEN r
    ELSE IF previews = "all"
    THEN Commit(r, "preview", <<"preview.src">>, <<>>, r.ext)
    ELSE IF r.ext = "unset" THEN Raise(r)
    ELSE IF r.ext = "other"
    THEN Commit(r, "preview", <<"preview.src">>, <<>>, r.ext)
    ELSE r

StartItem ==
    [out |-> <<>>, raised |-> FALSE, ext |-> "unset", orig |-> "unset"]

\* the Directory message is yielded after the primary source
EmissionStepsDirectoryLate(d, journals, previews) ==
    StagePreview(d,
        StageJournal(d,
            StageFlash(d,
                StageVideo(d,
                    StageDirectory(d,
                        StagePrimary(d, StartItem)))),
            journals),
        previews)

\* the flash step runs before the video step
EmissionStepsFlashFirst(d, journals, previews) ==
    StagePreview(d,
        StageJournal(d,
            StageVideo(d,
                StageFlash(d,
                    StagePrimary(d,
                        StageDirectory(d, StartItem)))),
            journals),
        previews)

\* lines 145-202: what an item that passed the checks yields
EmissionSteps(d, journals, previews) ==
    StagePreview(d,
        StageJournal(d,
            StageFlash(d,
                StageVideo(d,
                    StagePrimary(d,
                        StageDirectory(d, StartItem)))),
            journals),
        previews)

\* the pcp check comes before the check of the access tier
AsksPremiumLocked(d) == ~d.isDeleted /\ ~d.multiParent /\ d.pcp

\* the item gets as far as the pcp check of line 139
AsksPremium(d) == ~Early(d) /\ d.pcp

\* the log record of lines 125-126 and 135-136 reads deviation["deviationid"]
LogSkip(d, r) == IF d.idKey THEN r ELSE Raise(r)

\* yield Message.Queue, deviation["url"], deviation: line 131
Requeue(r) ==
    [r EXCEPT !.out = Append(@, [Msg("Queue", "queue") EXCEPT
                                    !.src = <<"deviation.url">>])]

\* the access tier is looked at before the gallery-parent flag
EclipseDeviationLockedFirst(d, premRet, journals, previews) ==
    IF d.isDeleted THEN LogSkip(d, StartItem)
    ELSE IF d.locked THEN LogSkip(d, StartItem)
    ELSE IF d.multiParent THEN Requeue(StartItem)
    ELSE IF d.pcp /\ premRet = 0 THEN StartItem
    ELSE EmissionSteps(d, journals, previews)

\* the result of _fetch_premium is not looked at
EclipseDeviationUngated(d, premRet, journals, previews) ==
    IF d.isDeleted THEN LogSkip(d, StartItem)
    ELSE IF d.multiParent THEN Requeue(StartItem)
    ELSE IF d.locked THEN LogSkip(d, StartItem)
    ELSE EmissionSteps(d, journals, previews)

\* _eclipse_deviation; premRet is what _fetch_premium returned (0 = None)
EclipseDeviation(d, premRet, journals, previews) ==
    IF d.isDeleted THEN LogSkip(d, StartItem)
    ELSE IF d.multiParent THEN Requeue(StartItem)
    ELSE IF d.locked THEN LogSkip(d, StartItem)
    ELSE IF d.pcp /\ premRet = 0 THEN StartItem
    ELSE EmissionSteps(d, journals, previews)

\* the items of the runs of several items: no video, flash, journal or
\* preview, and one gated shape
LoopShapes ==
    [isDeleted : BOOLEAN, idKey : {TRUE}, multiParent : BOOLEAN,
     locked : BOOLEAN,
     pcp : BOOLEAN, isDownloadable : BOOLEAN, uuid : BOOLEAN,
     media : {"none", "ok", "notoken"}, content : {"none"},
     videos : {<<>>}, flash : {FALSE}, journal : {FALSE},
     preview : {FALSE}, extKind : {"other"}]

LoopItems ==
    {d \in LoopShapes :
        /\ ItemShape(d)
        /\ d.pcp => (~Early(d) /\ d.media = "ok" /\ ~d.isDownloadable)}

\* the loop variables after an item whose resolution was r
Resolved(d, r) ==
    /\ item' = d
    /\ out' = r.out
    /\ itemRaised' = r.raised
    /\ handled' = handled + 1
    /\ remaining' = remaining - 1
    /\ xpc' = IF r.raised THEN "raised"
              ELSE IF remaining = 1 THEN "finished"
              ELSE "running"

UngatedItems == {d \in Items : ~AsksPremium(d)}
GatedItems == {d \in Items : AsksPremium(d)}
UngatedLoopItems == {d \in LoopItems : ~AsksPremium(d)}
GatedLoopItems == {d \in LoopItems : AsksPremium(d)}

\* the remote answers of the item runs: a gate of type "paid"
ItemEnvs ==
    {e \in PremEnvs : e.gate /\ e.type = "paid" /\ e.user = "u1" /\ ~e.watchOk}

\* one turn of the for loop of items() for an item that is no tuple: an
\* item of U that never reaches _fetch_premium, or an item of G, which does
ItemsTurn(U, G) ==
    /\ xpc = "running"
    /\ remaining > 0
    /\ \/ \E d \in U :
             /\ Resolved(d, EclipseDeviation(d, 0, cfgJournal, cfgPreviews))
             /\ UNCHANGED premVars
       \/ \E d \in G, id \in Ids, env \in ItemEnvs :
             LET p == PremiumOutcome(id, env) IN
             /\ premCalls < MaxPremCalls
             /\ PremiumApply(p, id, env)
             /\ Resolved(d, EclipseDeviation(d, p.ret, cfgJournal, cfgPreviews))
    /\ UNCHANGED <<pagVars, cfgJournal, cfgPreviews, cmtVars, textVars, mediaVars, auxVars>>

\* a run of items() over several items
ItemsStep == ItemsTurn(UngatedLoopItems, GatedLoopItems)

\* the resolution of one item of any shape
ResolveItem == ItemsTurn(UngatedItems, GatedItems)

\* one turn of the loop for a (url, data) tuple: lines 241-244
ItemsTuple ==
    /\ xpc = "running"
    /\ remaining > 0
    /\ item' = Plain
    /\ out' = <<Msg("Queue", "tuple")>>
    /\ itemRaised' = FALSE
    /\ handled' = handled + 1
    /\ remaining' = remaining - 1
    /\ xpc' = IF remaining = 1 THEN "finished" ELSE "running"
    /\ UNCHANGED <<pagVars, premVars, cfgJournal, cfgPreviews, cmtVars, textVars,
                   mediaVars, auxVars>>

ItemsInit ==
    /\ cfgJournal \in BOOLEAN
    /\ cfgPreviews \in {"off", "nonimage", "all"}
    /\ remaining \in 1..MaxQueue
    /\ xpc = "running"
    /\ item = Plain
    /\ out = <<>>
    /\ itemRaised = FALSE
    /\ handled = 0

ResolveInit ==
    /\ cfgJournal \in BOOLEAN
    /\ cfgPreviews \in {"off", "nonimage", "all"}
    /\ remaining = 1
    /\ xpc = "running"
    /\ item = Plain
    /\ out = <<>>
    /\ itemRaised = FALSE
    /\ handled = 0

ItemsIdle ==
    /\ cfgJournal = FALSE
    /\ cfgPreviews = "off"
    /\ remaining = 0
    /\ xpc = "finished"
    /\ item = Plain
    /\ out = <<>>
    /\ itemRaised = FALSE
    /\ handled = 0

\* ----------------------------------------------------- _extract_comments
\* A comment as _extract_comments reads it: commentid, parentid (0 = None)
\* and the truth of "replies".
Comment(id, parent, replies) == [id |-> id, parent |-> parent, replies |-> replies]

\* A reply tree over the comments 1..n: par[i] is the parent of i (0 for a
\* top-level comment), at most three levels deep.
Depth(par, i) ==
    IF par[i] = 0 THEN 1 ELSE IF par[par[i]] = 0 THEN 2
    ELSE IF par[par[par[i]]] = 0 THEN 3 ELSE 4

Trees ==
    UNION {{par \in [1..n -> 0..(n - 1)] :
               \A i \in 1..n : par[i] < i /\ Depth(par, i) <= 3}
           : n \in 0..MaxComments}

Children(par, a) == {i \in DOMAIN par : par[i] = a}

RECURSIVE PageOf(_, _, _)
\* the replies to anchor a that have an id of at least lo, in id order
PageOf(par, a, lo) ==
    IF lo > Len(par) THEN <<>>
    ELSE (IF par[lo] = a
          THEN <<Comment(lo, a, Cardinality(Children(par, lo)) > 0)>>
          ELSE <<>>) \o PageOf(par, a, lo + 1)

\* the server of a reply tree: the page anchored at the root sentinel (0)
\* holds the top-level comments, the page anchored at a comment its replies
TreeServer(par) == [a \in 0..Len(par) |-> PageOf(par, a, 1)]

\* servers over a finite set of comment ids whose pages need not form a
\* tree: every page holds at most one comment
LooseComments == [id : 1..MaxLooseIds, parent : 0..MaxLooseIds, replies : BOOLEAN]

LooseServers ==
    [0..MaxLooseIds -> {<<>>} \cup {<<c>> : c \in LooseComments}]

Range(s) == {s[i] : i \in DOMAIN s}

\* the orders in which the members of a set can be appended
Orders(S) ==
    {s \in [1..Cardinality(S) -> S] : \A i, j \in DOMAIN s : i # j => s[i] # s[j]}

\* every page replaces the results instead of extending them
AccumulateLast(res, comments) == comments

\* lines 792-795
Accumulate(res, comments) ==
    IF res # <<>> THEN res \o comments ELSE comments

\* lines 797-802: replies - parents
Unexpanded(comments) ==
    {c.id : c \in {x \in Range(comments) : x.replies}}
        \ {c.parent : c \in Range(comments)}

\* one iteration of the while loop; results longer than MaxResults are not
\* recorded
CommentsStep ==
    /\ cpc = "loop"
    /\ LET n        == Len(commentIds)
           anchor   == commentIds[n]
           comments == cmtPages[anchor]
           acc      == Accumulate(results, comments)
       IN  /\ cmtFetches' = (cmtFetches + 1) % 2
           /\ IF Len(acc) <= MaxResults
              THEN results' = acc /\ UNCHANGED cmtCut
              ELSE cmtCut' = TRUE /\ UNCHANGED results
           /\ \E ord \in Orders(Unexpanded(comments)) :
                 /\ commentIds' = SubSeq(commentIds, 1, n - 1) \o ord
                 /\ cpc' = IF commentIds' = <<>> THEN "done" ELSE "loop"
    /\ UNCHANGED <<cmtPages, pagVars, premVars, itemVars, textVars, mediaVars, auxVars>>

CommentsStart ==
    /\ commentIds = <<0>>
    /\ results = <<>>
    /\ cpc = "loop"
    /\ cmtCut = FALSE
    /\ cmtFetches = 0

\* the server holds a reply tree
TreeInit == cmtPages \in {TreeServer(par) : par \in Trees} /\ CommentsStart

\* the server is any of the servers of the model
AnyServerInit ==
    /\ cmtPages \in {TreeServer(par) : par \in Trees} \cup LooseServers
    /\ CommentsStart

CommentsIdle ==
    /\ cmtPages = <<>>
    /\ commentIds = <<>>
    /\ results = <<>>
    /\ cpc = "done"
    /\ cmtCut = FALSE
    /\ cmtFetches = 0

\* -------------------------------------------------- _tiptap_process_text
\* Strings are sequences of pieces; a piece is a literal of the source or a
\* character of a value.
EscapeChar(ch) ==
    IF ch = "<" THEN "&lt;" ELSE IF ch = "&" THEN "&amp;" ELSE ch

\* text.escape
Escape(str) == [i \in DOMAIN str |-> EscapeChar(str[i])]

Reverse(s) == [i \in DOMAIN s |-> s[Len(s) + 1 - i]]

\* A mark: its type and, for a link, href, target ("" = no such key) and rel.
\* "textStyle" has no other key, "textStyle+" has some.
MarkTypes == {"link", "bold", "italic", "underline", "strike", "textStyle",
              "textStyle+", "subscript"}

Mark(type, target) == [type |-> type, href |-> <<"u", "&">>, target |-> target]

Marks ==
    {Mark(t, "") : t \in MarkTypes} \cup {Mark("link", "_blank")}

DefaultRel == "noopener noreferrer nofollow ugc"

\* what one turn of the for loop appends to html, and to close
MarkOpen(mark) ==
    IF mark.type = "link"
    THEN <<"<a href=\"">> \o Escape(mark.href)
         \o (IF mark.target # "" THEN <<"\" target=\"", mark.target>> ELSE <<>>)
         \o <<"\" rel=\"", DefaultRel, "\">">>
    ELSE IF mark.type = "bold" THEN <<"<strong>">>
    ELSE IF mark.type = "italic" THEN <<"<em>">>
    ELSE IF mark.type = "underline" THEN <<"<u>">>
    ELSE IF mark.type = "strike" THEN <<"<s>">>
    ELSE <<>>

MarkClose(mark) ==
    IF mark.type = "link" THEN <<"</a>">>
    ELSE IF mark.type = "bold" THEN <<"</strong>">>
    ELSE IF mark.type = "italic" THEN <<"</em>">>
    ELSE IF mark.type = "underline" THEN <<"</u>">>
    ELSE IF mark.type = "strike" THEN <<"</s>">>
    ELSE <<>>

\* the mark reaches the final else: a warning is logged
MarkWarns(mark) ==
    mark.type \notin {"link", "bold", "italic", "underline", "strike", "textStyle"}

RECURSIVE MarkLoop(_, _, _, _)
\* the for loop over marks from position i on: html and close after it
MarkLoop(marks, i, html, close) ==
    IF i > Len(marks) THEN [html |-> html, close |-> close]
    ELSE MarkLoop(marks, i + 1, html \o MarkOpen(marks[i]),
                  close \o MarkClose(marks[i]))

\* the closing tags stay in the order they were collected
CloseOrderKept(close) == close

\* close.reverse()
CloseOrder(close) == Reverse(close)

\* _tiptap_process_text: html after the call
ProcessText(html, content) ==
    IF content.marks # <<>>
    THEN LET l == MarkLoop(content.marks, 1, html, <<>>)
         IN  l.html \o Escape(content.text) \o CloseOrder(l.close)
    ELSE html \o Escape(content.text)

MarkLists ==
    UNION {[1..n -> Marks] : n \in 0..MaxMarks}

TextNodes ==
    [marks : MarkLists, text : {<<"a">>, <<"<", "b", "&">>}]

NoText == [marks |-> <<>>, text |-> <<>>]

RenderText ==
    /\ tpc = "start"
    /\ textHtml' = ProcessText(<<>>, textNode)
    /\ textWarnings' = Cardinality({i \in DOMAIN textNode.marks :
                                       MarkWarns(textNode.marks[i])})
    /\ tpc' = "done"
    /\ UNCHANGED <<textNode, pagVars, premVars, itemVars, cmtVars, mediaVars, auxVars>>

TextInit ==
    /\ textNode \in TextNodes
    /\ textHtml = <<>>
    /\ textWarnings = 0
    /\ tpc = "start"

TextIdle ==
    /\ textNode = NoText
    /\ textHtml = <<>>
    /\ textWarnings = 0
    /\ tpc = "done"

\* ------------------------------------------------------ DeviationMedia.src
\* A format variant: its tag "t" and its template "c" (has = the key is set)
Templates ==
    {[has |-> FALSE, s |-> <<>>], [has |-> TRUE, s |-> <<>>],
     [has |-> TRUE, s |-> <<"/v1/", "<prettyName>">>],
     [has |-> TRUE, s |-> <<"/v1/fill/", "<prettyName>", "-pre.jpg">>]}

Variants == [t : {"fullview", "preview"}, c : Templates]

\* A media candidate: uri, token (<<>> = None or empty), types (<<>> = None
\* or empty) and prettyName (has = not None)
Candidates ==
    [uri : {<<"https://cdn/img">>, <<"https://x/", "i.png">>},
     token : {<<>>, <<"t1">>, <<"t2", "t1">>},
     types : UNION {[1..n -> Variants] : n \in 0..MaxVariants},
     prettyName : {[has |-> FALSE, s |-> <<>>], [has |-> TRUE, s |-> <<"x">>]}]

NoCandidate == [uri |-> <<>>, token |-> <<>>, types |-> <<>>,
                prettyName |-> [has |-> FALSE, s |-> <<>>]]

\* the value of a property: ok = it returned, val = the string returned
Returns(str) == [ok |-> TRUE, val |-> str]
Raises == [ok |-> FALSE, val |-> <<>>]

RECURSIVE Replace(_, _, _)
\* str.replace(old, new) on the pieces of s
Replace(s, old, new) ==
    IF s = <<>> THEN <<>>
    ELSE (IF Head(s) = old THEN new ELSE <<Head(s)>>)
         \o Replace(Tail(s), old, new)

\* the positions of the variants tagged "fullview"
Fullviews(types) == {i \in DOMAIN types : types[i].t = "fullview"}

\* token[-1], as _eclipse_media takes it
LastToken(token) == token[Len(token)]

\* token[0]
FirstToken(token) == token[1]

\* DeviationMedia.src
Src(m) ==
    IF m.token # <<>> /\ m.types # <<>>
    THEN IF Fullviews(m.types) = {} THEN Raises
         ELSE LET first == CHOOSE i \in Fullviews(m.types) :
                               \A j \in Fullviews(m.types) : i <= j
                  view  == m.types[first].c
              IN  IF view.has /\ view.s # <<>>
                  THEN IF ~m.prettyName.has THEN Raises
                       ELSE Returns(m.uri
                                \o Replace(view.s, "<prettyName>", m.prettyName.s)
                                \o <<"?token=", FirstToken(m.token)>>)
                  ELSE Returns(m.uri \o <<"?token=", FirstToken(m.token)>>)
    ELSE Returns(m.uri)

ReadSrc ==
    /\ mpc = "start"
    /\ mediaSrc' = Src(media)
    /\ mpc' = "done"
    /\ UNCHANGED <<media, pagVars, premVars, itemVars, cmtVars, textVars, auxVars>>

MediaInit ==
    /\ media \in Candidates
    /\ mediaSrc = Raises
    /\ mpc = "start"

MediaIdle ==
    /\ media = NoCandidate
    /\ mediaSrc = Raises
    /\ mpc = "done"

\* ------------------------------------------------------- _limited_request
\* Time is counted in seconds. DeviantartExtractor._last_request is a class
\* attribute: one value for all instances.
Instances == {"e1", "e2"}

\* the call does not sleep
SleepForNothing(diff) == 0

\* lines 809-810: the seconds self.sleep is asked to wait
SleepFor(diff) == IF diff < MinInterval THEN MinInterval - diff ELSE 0

\* One call of _limited_request by inst: the sleep may last longer than asked
\* (over) and the request takes dur seconds.
LimitedRequest ==
    \E inst \in Instances, over \in 0..1, dur \in 0..1 :
        LET asked == SleepFor(now - lastRequest)
            start == now + asked + over
        IN  /\ thrCalls < MaxThrCalls
            /\ start + dur <= MaxTime
            /\ thrInst' = Append(thrInst, inst)
            /\ thrAsked' = asked
            /\ thrPrev' = lastRequest
            /\ thrStart' = start
            /\ lastRequest' = start + dur
            /\ now' = start + dur
            /\ thrCalls' = thrCalls + 1
            /\ UNCHANGED <<pagVars, premVars, itemVars, cmtVars, textVars,
                           mediaVars, renVars, extVars, moreVars>>

\* a second passes between two calls
TimePasses ==
    /\ now < MaxTime
    /\ now' = now + 1
    /\ UNCHANGED <<lastRequest, thrInst, thrAsked, thrPrev, thrStart, thrCalls>>
    /\ UNCHANGED <<pagVars, premVars, itemVars, cmtVars, textVars, mediaVars,
                   renVars, extVars, moreVars>>

ThrottleStart ==
    /\ lastRequest = 0
    /\ thrInst = <<>>
    /\ thrAsked = 0
    /\ thrPrev = 0
    /\ thrStart = 0
    /\ thrCalls = 0

\* line 39: _last_request starts at 0, and the clock is well past it
ThrottleInit ==
    /\ now \in MinInterval..(MinInterval + 1)
    /\ ThrottleStart

ThrottleIdle ==
    /\ now = MinInterval
    /\ ThrottleStart

\* --------------------------------------------------------- _tiptap_to_html
\* A node of the document tree: its type, its attrs, its marks and text (a
\* text node) and its children (content). The long literals of the source
\* are cut after their first tag.
\* present says whether the node has the key "attrs" at all; dev is "image"
\* when "baseUri" is in the media of the embedded item ("imageNoFull" when
\* its types have no fullview), "journal" when it has textContent and no
\* such media, and "none" otherwise.
NoAttrs ==
    [present |-> TRUE,
     hasAlign |-> FALSE, textAlign |-> <<>>, indentType |-> "",
     indentation |-> 0, level |-> "", id |-> <<>>, username |-> <<>>,
     alignment |-> <<>>, width |-> "", height |-> "", url |-> <<>>,
     src |-> <<>>, dev |-> "none", title |-> <<>>, excerpt |-> <<>>]

\* the node has no key "attrs"
AbsentAttrs == [NoAttrs EXCEPT !.present = FALSE]

Node(type, attrs, children) ==
    [type |-> type, attrs |-> attrs, marks |-> <<>>, text |-> <<>>,
     children |-> children]

TextNode(marks, str) ==
    [type |-> "text", attrs |-> NoAttrs, marks |-> marks, text |-> str,
     children |-> <<>>]

\* the types _tiptap_process_content has a branch for
Vocabulary ==
    {"paragraph", "text", "heading", "listItem", "bulletList", "orderedList",
     "blockquote", "anchor", "hardBreak", "horizontalRule", "da-deviation",
     "da-mention", "da-gif", "da-video"}

\* str.lower() on the characters of a value
LowerChar(ch) == IF ch = "U" THEN "u" ELSE ch

Lower(str) == [i \in DOMAIN str |-> LowerChar(str[i])]

\* _tiptap_process_indentation: the piece it appends
Indentation(attrs) ==
    (IF attrs.indentType = "line" THEN "text-indent" ELSE "margin-inline-start")
        \o ":" \o ToString(attrs.indentation * 24) \o "px"

\* lines 485-491: the tag of the four list-like types, by type[1]
ListTag(type) ==
    IF type = "listItem" THEN "li"
    ELSE IF type = "bulletList" THEN "ul"
    ELSE IF type = "orderedList" THEN "ol"
    ELSE "blockquote"

\* _tiptap_process_deviation: html after the call
ProcessDeviation(html, content) ==
    LET a == content.attrs
    IN  html \o <<"<div class=\"jjNX2\">", "<figure class=\"Qf-HY\" ...>">>
        \o (IF a.dev = "image"
            THEN <<"<a href=\"">> \o Escape(a.url)
                 \o <<"\" class=\"_3ouD5\" style=\"...height:", "780*h/w",
                      "px\">", "<img src=\"">> \o Escape(a.src)
                 \o <<"\" alt=\"">> \o Escape(a.title)
                 \o <<"\" style=\"width:100%;max-width:100%;display:block\"/>",
                      "</a>">>
            ELSE IF a.dev = "journal"
            THEN <<"<div class=\"_32Hs4\" style=\"width:350px\">",
                   "<a href=\"">> \o Escape(a.url)
                 \o <<"\" class=\"_3ouD5\">", "<section class=\"Q91qI aG7Yi\" ...>">>
                 \o Escape(a.title) \o <<"</h3><div class=\"_2CPLm\">">>
                 \o Escape(a.excerpt) \o <<"</div></section></a></div>">>
            ELSE <<>>)
        \o <<"</figure></div>">>

\* the unknown node leaves a comment in the output
UnknownContentMarked(html, content) == html \o <<"<!-- unsupported -->">>

\* lines 562-563, the final else: a warning is logged, html stays as it is
UnknownContent(html, content) == html

RECURSIVE ProcessContent(_, _)
RECURSIVE ProcessBlocks(_, _, _)
\* the for loops over blocks, from position i on: html after them
ProcessBlocks(html, blocks, i) ==
    IF i > Len(blocks) THEN html
    ELSE ProcessBlocks(ProcessContent(html, blocks[i]), blocks, i + 1)

\* _tiptap_process_children
ProcessChildren(html, content) ==
    IF content.children # <<>> THEN ProcessBlocks(html, content.children, 1)
    ELSE html

\* _tiptap_process_content: html after the call
ProcessContent(html, content) ==
    LET a == content.attrs
        level == IF a.level = "" THEN "3" ELSE a.level
    IN  IF content.type = "paragraph"
        THEN IF content.children # <<>>
             THEN ProcessBlocks(
                      html \o <<"<p style=\"">>
                      \o (IF a.hasAlign
                          THEN <<"text-align:">> \o a.textAlign \o <<";">>
                          ELSE <<>>)
                      \o <<Indentation(a), "\">">>,
                      content.children, 1) \o <<"</p>">>
             ELSE html \o <<"<p class=\"empty-p\"><br/></p>">>
        ELSE IF content.type = "text"
        THEN ProcessText(html, content)
        ELSE IF content.type = "heading"
        THEN ProcessChildren(
                 html \o <<"<h", level, " style=\"text-align:">>
                 \o (IF a.textAlign = <<>> THEN <<"left">> ELSE a.textAlign)
                 \o <<"\">", "<span style=\"", Indentation(a), "\">">>,
                 content) \o <<"</span></h", level, ">">>
        ELSE IF content.type \in {"listItem", "bulletList", "orderedList",
                                  "blockquote"}
        THEN ProcessChildren(html \o <<"<" \o ListTag(content.type) \o ">">>,
                             content)
             \o <<"</" \o ListTag(content.type) \o ">">>
        ELSE IF content.type = "anchor"
        THEN html \o <<"<a id=\"">> \o a.id \o <<"\" data-testid=\"anchor\"></a>">>
        ELSE IF content.type = "hardBreak"
        THEN html \o <<"<br/><br/>">>
        ELSE IF content.type = "horizontalRule"
        THEN html \o <<"<hr/>">>
        ELSE IF content.type = "da-deviation"
        THEN ProcessDeviation(html, content)
        ELSE IF content.type = "da-mention"
        THEN html \o <<"<a href=\"https://www.deviantart.com/">>
             \o Lower(a.username)
             \o <<"\" data-da-type=\"da-mention\" data-user=\"\">@<!-- -->">>
             \o a.username \o <<"</a>">>
        ELSE IF content.type = "da-gif"
        THEN html \o <<"<div data-da-type=\"da-gif\" data-width=\"", a.width,
                       "\" data-height=\"", a.height, "\" data-alignment=\"">>
             \o a.alignment \o <<"\" data-url=\"">> \o Escape(a.url)
             \o <<"\" class=\"t61qu\"><video role=\"img\" ... width=\"",
                  a.width, "\" height=\"", a.height, "\" src=\"">>
             \o Escape(a.url) \o <<"\" class=\"_1Fkk6\"></video></div>">>
        ELSE IF content.type = "da-video"
        THEN html \o <<"<div data-testid=\"video\" ... data-src=\"">>
             \o Escape(a.src)
             \o <<"\" class=\"_1Uxvs\">...<video src=\"">> \o Escape(a.src)
             \o <<"\" style=\"width:100%;height:100%;\" ...></video></div></div></div>">>
        ELSE UnknownContent(html, content)

RECURSIVE ContentRaises(_)
\* _tiptap_process_content raises: content["attrs"] of lines 455, 473, 502,
\* 517, 525 and 550 or formats["fullview"] of line 628 is a KeyError, or
\* the processing of a child raises
ContentRaises(content) ==
    LET kids == \E i \in DOMAIN content.children :
                    ContentRaises(content.children[i])
    IN  IF content.type = "paragraph"
        THEN content.children # <<>> /\ (~content.attrs.present \/ kids)
        ELSE IF content.type = "heading"
        THEN ~content.attrs.present \/ kids
        ELSE IF content.type \in {"listItem", "bulletList", "orderedList",
                                  "blockquote"}
        THEN kids
        ELSE IF content.type \in {"anchor", "da-mention", "da-gif", "da-video"}
        THEN ~content.attrs.present
        ELSE IF content.type = "da-deviation"
        THEN ~content.attrs.present \/ content.attrs.dev = "imageNoFull"
        ELSE FALSE

RECURSIVE Unsupported(_)
\* the "Unsupported content type" warnings of processing one block
Unsupported(content) ==
    IF content.type \notin Vocabulary THEN 1
    ELSE IF content.type \in {"text", "anchor", "hardBreak", "horizontalRule",
                              "da-deviation", "da-mention", "da-gif",
                              "da-video"}
    THEN 0
    ELSE LET RECURSIVE Sum(_)
             Sum(i) == IF i > Len(content.children) THEN 0
                       ELSE Unsupported(content.children[i]) + Sum(i + 1)
         IN  Sum(1)

\* line 438: the opening piece
DivOpen == "<div data-editor-viewer=\"1\" class=\"_83r8m _2CKTq _3NjDa mDnFl\">"

\* _tiptap_to_html as a whole: the pieces it joins
ToHtml(blocks) == ProcessBlocks(<<DivOpen>>, blocks, 1) \o <<"</div>">>

\* the documents of the model
Leaves ==
    {TextNode(<<>>, <<"a", "<">>),
     TextNode(<<Mark("bold", ""), Mark("link", "")>>, <<"b">>),
     Node("da-mention", [NoAttrs EXCEPT !.username = <<"U", "<">>], <<>>),
     Node("table", NoAttrs, <<>>)}

ChildLists ==
    {<<>>} \cup {<<l>> : l \in Leaves}
           \cup {<<l, m>> : l \in Leaves, m \in Leaves}

ParagraphAttrs ==
    {NoAttrs,
     [NoAttrs EXCEPT !.hasAlign = TRUE, !.textAlign = <<"c", "<">>,
                     !.indentType = "line", !.indentation = 1]}

ShortLists ==
    {<<>>, <<TextNode(<<>>, <<"a", "<">>)>>, <<Node("table", NoAttrs, <<>>)>>}

Blocks ==
    Leaves
    \cup {Node("paragraph", a, c) : a \in ParagraphAttrs, c \in ChildLists}
    \cup {Node("paragraph", AbsentAttrs, c) : c \in ShortLists}
    \cup {Node("heading", [NoAttrs EXCEPT !.level = "2"], c) : c \in ShortLists}
    \cup {Node("bulletList", NoAttrs, c) : c \in ShortLists}
    \cup {Node("anchor", [NoAttrs EXCEPT !.id = <<"i", "&">>], <<>>),
          Node("hardBreak", NoAttrs, <<>>),
          Node("horizontalRule", NoAttrs, <<>>),
          Node("da-deviation",
               [NoAttrs EXCEPT !.dev = "journal", !.url = <<"u", "&">>,
                               !.title = <<"t", "<">>, !.excerpt = <<"e">>],
               <<>>),
          Node("da-gif",
               [NoAttrs EXCEPT !.width = "640", !.height = "480",
                               !.alignment = <<"l", "<">>, !.url = <<"g", "&">>],
               <<>>),
          Node("da-video", [NoAttrs EXCEPT !.src = <<"v", "&">>], <<>>)}

Documents == UNION {[1..n -> Blocks] : n \in 0..MaxBlocks}

\* lines 441-442: one turn of the loop over data["document"]["content"]
TiptapBlock ==
    /\ rpc = "loop"
    /\ rDone < Len(doc)
    /\ IF ContentRaises(doc[rDone + 1])
       THEN /\ rpc' = "raised"
            /\ UNCHANGED <<rHtml, rWarnings, rDone>>
       ELSE /\ rHtml' = ProcessContent(rHtml, doc[rDone + 1])
            /\ rWarnings' = rWarnings + Unsupported(doc[rDone + 1])
            /\ rDone' = rDone + 1
            /\ rpc' = rpc
    /\ UNCHANGED doc
    /\ UNCHANGED <<pagVars, premVars, itemVars, cmtVars, textVars, mediaVars,
                   thrVars, extVars, moreVars>>

\* lines 443-445: the loop is over, the closing piece is appended
TiptapDone ==
    /\ rpc = "loop"
    /\ rDone = Len(doc)
    /\ rHtml' = rHtml \o <<"</div>">>
    /\ rpc' = "done"
    /\ UNCHANGED <<doc, rDone, rWarnings>>
    /\ UNCHANGED <<pagVars, premVars, itemVars, cmtVars, textVars, mediaVars,
                   thrVars, extVars, moreVars>>

\* lines 436-440: html holds the opening piece, the markup is parsed
RenderInit ==
    /\ doc \in Documents
    /\ rHtml = <<DivOpen>>
    /\ rDone = 0
    /\ rWarnings = 0
    /\ rpc = "loop"

RenderIdle ==
    /\ doc = <<>>
    /\ rHtml = <<>>
    /\ rDone = 0
    /\ rWarnings = 0
    /\ rpc = "done"

\* ------------------------------------------------ Deviation._validate_extended
\* The Deviation under validation, as far as the validator reads it: id is
\* "set", or None with a url whose last "-" field is a number ("parsable")
\* or is not ("unparsable"); uri is a sequence of pieces, "." being the
\* separator; extension and filesize are None (has = FALSE) or a value;
\* token is truthy or not; types is None ("none") or a list without a
\* fullview ("nofull"), with a fullview that has "f" ("full") or lacks it
\* ("fullNoF").
Uris ==
    {<<"https://cdn/img", ".", "png">>, <<"https://cdn/img">>,
     <<"https://cdn/a", ".", "tar", ".", "gz">>, <<"https://cdn/b", ".">>}

Extensions ==
    {[has |-> FALSE, s |-> <<>>], [has |-> TRUE, s |-> <<>>],
     [has |-> TRUE, s |-> <<"jpg">>]}

Deviations ==
    [id : {"set", "parsable", "unparsable"},
     uri : Uris,
     extension : Extensions,
     token : BOOLEAN,
     filesize : {[has |-> FALSE], [has |-> TRUE]},
     types : {"none", "nofull", "full", "fullNoF"}]

NoDeviation ==
    [id |-> "set", uri |-> <<>>, extension |-> [has |-> FALSE, s |-> <<>>],
     token |-> FALSE, filesize |-> [has |-> FALSE], types |-> "none"]

RECURSIVE LastSegment(_)
\* uri.split('.')[-1]: the pieces after the last "."
LastSegment(uri) ==
    IF \A i \in DOMAIN uri : uri[i] # "." THEN uri
    ELSE LastSegment(Tail(uri))

\* the extension is taken from the uri whatever it was
DeriveExtensionAlways(d) == [has |-> TRUE, s |-> LastSegment(d.uri)]

\* lines 165-166: the extension after them
DeriveExtension(d) ==
    IF ~d.extension.has \/ d.extension.s = <<>>
    THEN [has |-> TRUE, s |-> LastSegment(d.uri)]
    ELSE d.extension

\* lines 168-169 raise: next() finds no fullview, or types is None
FilesizeRaises(d) ==
    d.token /\ ~d.filesize.has /\ d.types \in {"none", "nofull"}

\* lines 168-169: filesize after them
DeriveFilesize(d) ==
    IF d.token /\ ~d.filesize.has /\ d.types = "full" THEN [has |-> TRUE]
    ELSE d.filesize

\* one run of the validator over the Deviation
ValidateExtended ==
    /\ extRuns < MaxRuns
    /\ ~extRaised
    /\ extRuns' = extRuns + 1
    /\ IF extMedia.id = "unparsable"
       THEN extRaised' = TRUE /\ extMedia' = extMedia
       ELSE LET d == [extMedia EXCEPT !.id = "set",
                                      !.extension = DeriveExtension(extMedia)]
            IN  IF FilesizeRaises(d)
                THEN extRaised' = TRUE /\ extMedia' = d
                ELSE /\ extRaised' = FALSE
                     /\ extMedia' = [d EXCEPT !.filesize = DeriveFilesize(d)]
    /\ UNCHANGED extInitial
    /\ UNCHANGED <<pagVars, premVars, itemVars, cmtVars, textVars, mediaVars,
                   thrVars, renVars, moreVars>>

ExtInit ==
    /\ extMedia \in Deviations
    /\ extInitial = extMedia.extension
    /\ extRuns = 0
    /\ extRaised = FALSE

ExtIdle ==
    /\ extMedia = NoDeviation
    /\ extInitial = NoDeviation.extension
    /\ extRuns = 0
    /\ extRaised = FALSE

\* ------------------------------------ _fetch_premium on several instances
\* lines 59-67: what _init gives every instance (auto-unwatch on)
CoStart == [cache |-> <<>>, unwatch |-> <<>>, disabled |-> FALSE, warned |-> 0]

\* the cache is one dict for all instances
CoWriteShared(st, inst, r) ==
    [j \in Instances |->
        IF j = inst
        THEN [cache |-> r.cache, unwatch |-> r.unwatch,
              disabled |-> r.disabled, warned |-> r.warned]
        ELSE [st[j] EXCEPT !.cache = r.cache]]

\* the fields of self after a call with outcome r
CoWrite(st, inst, r) ==
    [st EXCEPT ![inst] = [cache |-> r.cache, unwatch |-> r.unwatch,
                          disabled |-> r.disabled, warned |-> r.warned]]

\* the remote answers of these runs: folders of one author, for watchers
CoEnvs == {e \in PremEnvs : e.user = "u1" /\ e.type = "watchers"}

\* One call of inst._fetch_premium(deviation), with a refresh token and
\* auto-watch on
CoordinatorCall ==
    /\ coCalls < MaxCoCalls
    /\ \E inst \in Instances, id \in Ids, env \in CoEnvs :
          LET me == coState[inst]
              r  == FetchPremium(me.cache, me.unwatch, me.disabled, me.warned,
                                 id, env, TRUE, TRUE, TRUE)
          IN  /\ coState' = CoWrite(coState, inst, r)
              /\ coLast' = [inst |-> inst, id |-> id, ret |-> r.ret,
                            hit |-> r.hit, before |-> coState]
    /\ coCalls' = coCalls + 1
    /\ UNCHANGED <<pagVars, premVars, itemVars, cmtVars, textVars, mediaVars,
                   thrVars, renVars, extVars, jouVars, conVars, galVars>>

CoInit ==
    /\ coState = [j \in Instances |-> CoStart]
    /\ coLast = [inst |-> "e1", id |-> 0, ret |-> 0, hit |-> FALSE,
                 before |-> [j \in Instances |-> CoStart]]
    /\ coCalls = 0

\* -------------------------------------------------------- _extract_journal
\* A page of the item, inline ("_page") or fetched: lit is the literature
\* html between the two markers (<<>> = none found), and of the textContent
\* of its __INITIAL_STATE__ markup says what html["markup"] is: "none"
\* (absent or empty), "raw" (a string that does not start with "{"),
\* "tiptap" (a tiptap document), "tiptapRaises" (a tiptap document whose
\* rendering raises) or "other" (a JSON document of another type).
Pages(origin) ==
    [origin : {origin},
     lit : {<<>>, <<origin, "literature">>},
     markup : {"none", "raw", "tiptap", "tiptapRaises", "other"}]

AbsentPage == [origin |-> "none", lit |-> <<>>, markup |-> "none"]

\* textContent["excerpt"] of a page
PageExcerpt == <<"e", "\n", "f">>

\* the documents of the two tiptap markups
TiptapDoc == <<Node("paragraph", NoAttrs, <<TextNode(<<>>, <<"a", "<">>)>>)>>
TiptapBadDoc == <<Node("paragraph", AbsentAttrs, <<TextNode(<<>>, <<"a", "<">>)>>)>>

\* _textcontent_to_html: the html, <<>> for None or an empty markup
TextcontentToHtml(page) ==
    IF page.markup = "none" THEN <<>>
    ELSE IF page.markup = "raw" THEN <<page.origin, "markup">>
    ELSE IF page.markup \in {"tiptap", "tiptapRaises"}
    THEN LET d == IF page.markup = "tiptap" THEN TiptapDoc ELSE TiptapBadDoc
         IN  IF \E i \in DOMAIN d : ContentRaises(d[i]) THEN <<>>
             ELSE ToHtml(d)
    ELSE <<>>

\* the excerpt is taken before the markup is looked at
FromPageExcerptFirst(page) == Replace(PageExcerpt, "\n", <<"<br />">>)

\* lines 389-411: the html taken from the page
FromPage(page) ==
    IF page.lit # <<>> THEN page.lit
    ELSE IF TextcontentToHtml(page) # <<>> THEN TextcontentToHtml(page)
    ELSE Replace(PageExcerpt, "\n", <<"<br />">>)

\* the items of the journal step: journals is the option of that name
\* ("html" or "text" = TRUE), inline the "_page" of the item if it has one,
\* remote the page its url gives
JournalItems ==
    [journals : BOOLEAN, excerpt : BOOLEAN, body : BOOLEAN,
     inline : {AbsentPage} \cup Pages("inline"),
     remote : Pages("remote")]

NoJournal == [has |-> FALSE, html |-> <<>>, fetches |-> 0]

\* _extract_journal: the journal returned (has = FALSE for None) and the
\* _limited_request calls made
ExtractJournal(d) ==
    IF d.excerpt
    THEN IF d.inline # AbsentPage
         THEN [has |-> TRUE, html |-> FromPage(d.inline), fetches |-> 0]
         ELSE [has |-> TRUE, html |-> FromPage(d.remote), fetches |-> 1]
    ELSE IF d.body
    THEN [has |-> TRUE, html |-> <<"body">>, fetches |-> 0]
    ELSE NoJournal

\* lines 170-176: the journal step of _eclipse_deviation
JournalStep ==
    /\ jpc = "start"
    /\ LET j == IF jItem.journals THEN ExtractJournal(jItem) ELSE NoJournal
       IN  /\ jRet' = j
           /\ jFetches' = j.fetches
           /\ jOut' = IF j.has
                      THEN <<[type |-> "Url", stage |-> "journal",
                              html |-> j.html, original |-> "true"]>>
                      ELSE <<>>
    /\ jpc' = "done"
    /\ UNCHANGED jItem
    /\ UNCHANGED <<pagVars, premVars, itemVars, cmtVars, textVars, mediaVars,
                   thrVars, renVars, extVars, coVars, conVars, galVars>>

JournalStart ==
    /\ jRet = NoJournal
    /\ jOut = <<>>
    /\ jFetches = 0

JournalInit ==
    /\ jItem \in JournalItems
    /\ JournalStart
    /\ jpc = "start"

JournalIdle ==
    /\ jItem = [journals |-> FALSE, excerpt |-> FALSE, body |-> FALSE,
                inline |-> AbsentPage, remote |-> AbsentPage]
    /\ JournalStart
    /\ jpc = "done"

\* -------------------------------------------------------- _extract_content
\* The options _init reads: original, jwt, intermediary and quality ("off"
\* a falsy value, "png" the value "png", "q" a number, the default "100")
ContentConfigs ==
    [original : BOOLEAN, jwt : BOOLEAN, intermediary : BOOLEAN,
     quality : {"off", "q", "png"}]

Wixmp == "https://images-wixmp-"

\* content["src"] as pieces
Sources ==
    {<<Wixmp, "ed30a.wixmp.com", "/f/", "a/b.jpg", "/v1/", "fill/w_1,h_1",
       ",q_80", ",strp/x", "-fullview.jpg?", "token=T">>,
     <<Wixmp, "ed30a.wixmp.com", "/f/", "a/b.jpg", "/v1/", "fill/w_1,h_1",
       ",q_100", ",strp/x", "-pre.jpg?", "token=T">>,
     <<Wixmp, "ed30a.wixmp.com", "/f/", "a/b.jpg", "?token=T">>,
     <<"https://other/", "x.jpg">>}

\* the item: its content["src"], whether its index is at most 790677560 and
\* its is_downloadable
ContentItems == [src : Sources, old : BOOLEAN, downloadable : BOOLEAN]

Has(s, piece) == \E i \in DOMAIN s : s[i] = piece

First(s, piece) == CHOOSE i \in DOMAIN s : s[i] = piece /\ \A j \in 1..(i - 1) : s[j] # piece

\* re.subn(r"(/f/[^/]+/[^/]+)/v\d+/.*", r"/intermediary\1", src, 1): the
\* string and the count
Intermediary(src) ==
    IF Has(src, "/f/") /\ First(src, "/f/") + 2 <= Len(src)
          /\ src[First(src, "/f/") + 2] = "/v1/"
    THEN LET i == First(src, "/f/")
         IN  [count |-> 1,
              src |-> SubSeq(src, 1, i - 1) \o <<"/intermediary", "/f/", src[i + 1]>>]
    ELSE [count |-> 0, src |-> src]

\* self.quality_sub(self.quality, src, 1), lines 69-75
QualitySub(quality, src) ==
    IF quality = "png"
    THEN [i \in DOMAIN src |->
            IF src[i] \in {"-fullview.jpg?"} THEN "-fullview.png?" ELSE src[i]]
    ELSE [i \in DOMAIN src |->
            IF src[i] \in {",q_80", ",q_100"} THEN ",q_100" ELSE src[i]]

NoFallback == [has |-> FALSE, urls |-> <<>>]

Fallback(src) == [has |-> TRUE, urls |-> <<src>>]

\* _update_token: src, _fallback and is_original after it
UpdateToken(src) ==
    IF ~Has(src, "/v1/")
    THEN [src |-> src, fallback |-> NoFallback, orig |-> "unset"]
    ELSE LET url == SubSeq(src, 1, First(src, "/v1/") - 1)
         IN  [src |-> Replace(url, Wixmp, <<"https://wixmp-">>)
                      \o <<"?token=eyJ0eXAiOiJKV1QiLCJhbGciOiJub25lIn0.", "payload", ".">>,
              fallback |-> Fallback(src), orig |-> "true"]

\* lines 683-695: the rewrites of a wixmp source
Rewrite(cfg, d) ==
    LET im == IF cfg.intermediary /\ d.old THEN Intermediary(d.src)
              ELSE [count |-> 0, src |-> d.src]
    IN  [src |-> IF cfg.quality # "off" THEN QualitySub(cfg.quality, im.src)
                 ELSE im.src,
         fallback |-> IF im.count > 0 THEN Fallback(d.src) ELSE NoFallback,
         orig |-> IF im.count > 0 THEN "false" ELSE "unset"]

\* _extract_content: the branch taken and src, _fallback and is_original
\* after it
ExtractContent(cfg, d) ==
    IF cfg.original /\ d.downloadable
    THEN [branch |-> "download", src |-> <<"download.src">>,
          fallback |-> NoFallback, orig |-> "true"]
    ELSE IF cfg.jwt
    THEN [branch |-> "token"] @@ UpdateToken(d.src)
    ELSE IF Head(d.src) = Wixmp
    THEN [branch |-> "rewrite"] @@ Rewrite(cfg, d)
    ELSE [branch |-> "none", src |-> d.src, fallback |-> NoFallback,
          orig |-> "unset"]

NoContent == [branch |-> "none", src |-> <<>>, fallback |-> NoFallback,
              orig |-> "unset"]

\* one call of _extract_content
ContentStep ==
    /\ ctpc = "start"
    /\ ctRet' = ExtractContent(ctCfg, ctItem)
    /\ ctpc' = "done"
    /\ UNCHANGED <<ctCfg, ctItem>>
    /\ UNCHANGED <<pagVars, premVars, itemVars, cmtVars, textVars, mediaVars,
                   thrVars, renVars, extVars, coVars, jouVars, galVars>>

ContentInit ==
    /\ ctCfg \in ContentConfigs
    /\ ctItem \in ContentItems
    /\ ctRet = NoContent
    /\ ctpc = "start"

ContentIdle ==
    /\ ctCfg = [original |-> FALSE, jwt |-> FALSE, intermediary |-> FALSE,
                quality |-> "off"]
    /\ ctItem = [src |-> <<>>, old |-> FALSE, downloadable |-> FALSE]
    /\ ctRet = NoContent
    /\ ctpc = "done"

\* ------------------------------------ DeviantartDeviationExtractor.deviations
FileIds == {11, 12, 13}

\* extended["additionalMedia"]: the fileId of every post
FileLists == UNION {[1..n -> FileIds] : n \in 0..MaxFiles}

\* The deviation dict as deviations() and the primary step read it: multi is
\* isMultiImage, uuid whether extended has a deviationUuid, media the file
\* its "media" is of (0 = the primary file); NULL = no such key
FetchedDeviations ==
    [multi : BOOLEAN, isDownloadable : BOOLEAN, uuid : BOOLEAN,
     media : {0}, num : {NULL}, index_file : {NULL}, count : {NULL}]

NoFetched == [multi |-> FALSE, isDownloadable |-> FALSE, uuid |-> FALSE,
              media |-> 0, num |-> NULL, index_file |-> NULL, count |-> NULL]

\* lines 921-932: the dict before it is yielded the first time
FirstFile(d, files) ==
    IF d.multi
    THEN [d EXCEPT !.index_file = 0, !.count = 1 + Len(files), !.num = 1]
    ELSE d

\* the additional file stays downloadable
NextFileDownloadable(d, post) ==
    [d EXCEPT !.media = post, !.num = @ + 1, !.index_file = post]

\* lines 938-943: the dict for one additional file
NextFile(d, post) ==
    [d EXCEPT !.media = post, !.num = @ + 1, !.index_file = post,
              !.isDownloadable = FALSE]

\* lines 149-153: the primary step the resolution takes for the dict
PrimaryPath(d) == IF d.isDownloadable /\ d.uuid THEN "download" ELSE "media"

\* the dict as the resolution gets it
Handed(d) == [dev |-> d, path |-> PrimaryPath(d)]

\* lines 915-934: the fetch and the first yield
GalleryFirst ==
    /\ galpc = "start"
    /\ galDev' = FirstFile(galDev, galFiles)
    /\ galYielded' = <<Handed(galDev')>>
    /\ galpc' = IF galFiles # <<>> THEN "files" ELSE "done"
    /\ UNCHANGED galFiles
    /\ UNCHANGED <<pagVars, premVars, itemVars, cmtVars, textVars, mediaVars,
                   thrVars, renVars, extVars, coVars, jouVars, conVars>>

\* lines 936-944: one turn of the loop over additional_media
GalleryNext ==
    /\ galpc = "files"
    /\ galDev' = NextFile(galDev, galFiles[Len(galYielded)])
    /\ galYielded' = Append(galYielded, Handed(galDev'))
    /\ galpc' = IF Len(galYielded) < Len(galFiles) THEN "files" ELSE "done"
    /\ UNCHANGED galFiles
    /\ UNCHANGED <<pagVars, premVars, itemVars, cmtVars, textVars, mediaVars,
                   thrVars, renVars, extVars, coVars, jouVars, conVars>>

GalleryInit ==
    /\ galDev \in FetchedDeviations
    /\ galFiles \in IF galDev.multi THEN FileLists ELSE {<<>>}
    /\ galYielded = <<>>
    /\ galpc = "start"

GalleryIdle ==
    /\ galFiles = <<>>
    /\ galDev = NoFetched
    /\ galYielded = <<>>
    /\ galpc = "done"

\* ------------------------------------------------------- specifications
Idle(part) ==
    /\ part = "pagination" \/ PagIdle
    /\ part \in {"premium", "items"} \/ PremIdle
    /\ part = "items" \/ ItemsIdle
    /\ part = "comments" \/ CommentsIdle
    /\ part = "text" \/ TextIdle
    /\ part = "media" \/ MediaIdle
    /\ part = "throttle" \/ ThrottleIdle
    /\ part = "render" \/ RenderIdle
    /\ part = "extension" \/ ExtIdle
    /\ part = "coordinators" \/ CoInit
    /\ part = "journal" \/ JournalIdle
    /\ part = "content" \/ ContentIdle
    /\ part = "gallery" \/ GalleryIdle

InitPagination == PagInit /\ Idle("pagination")
SpecPagination == InitPagination /\ [][Paginate]_vars

InitPremium == PremInit /\ Idle("premium")
SpecPremium == InitPremium /\ [][PremiumCall]_vars

InitItems == ItemPremInit /\ ItemsInit /\ Idle("items")
SpecItems == InitItems /\ [][ItemsStep \/ ItemsTuple]_vars

InitResolve == ItemPremInit /\ ResolveInit /\ Idle("items")
SpecResolve == InitResolve /\ [][ResolveItem]_vars

InitComments == TreeInit /\ Idle("comments")
SpecComments == InitComments /\ [][CommentsStep]_vars

\* the loop of _extract_comments keeps running until the work-list is empty
InitAnyComments == AnyServerInit /\ Idle("comments")
FairComments ==
    InitAnyComments /\ [][CommentsStep]_vars /\ WF_vars(CommentsStep)

InitText == TextInit /\ Idle("text")
SpecText == InitText /\ [][RenderText]_vars

InitMedia == MediaInit /\ Idle("media")
SpecMedia == InitMedia /\ [][ReadSrc]_vars

InitThrottle == ThrottleInit /\ Idle("throttle")
SpecThrottle == InitThrottle /\ [][LimitedRequest \/ TimePasses]_vars

InitRender == RenderInit /\ Idle("render")
SpecRender == InitRender /\ [][TiptapBlock \/ TiptapDone]_vars

InitExtension == ExtInit /\ Idle("extension")
SpecExtension == InitExtension /\ [][ValidateExtended]_vars

InitJournal == JournalInit /\ Idle("journal")
SpecJournal == InitJournal /\ [][JournalStep]_vars

InitContent == ContentInit /\ Idle("content")
SpecContent == InitContent /\ [][ContentStep]_vars

InitGallery == GalleryInit /\ Idle("gallery")
SpecGallery == InitGallery /\ [][GalleryFirst \/ GalleryNext]_vars

InitCoordinators == CoInit /\ Idle("coordinators")
SpecCoordinators == InitCoordinators /\ [][CoordinatorCall]_vars

\* what the session can see of the listing, in server order
Expected == SeqRange(srvVis, 1, srvN)

\* C1: when _pagination has returned (every response carried the results
\* key), the items it yielded are exactly the server's items in server
\* order, none of them twice
C1_Claim ==
    /\ NoDuplicates(yielded)
    /\ (ppc = "done" /\ ~missing) => yielded = Expected

\* C2: an iteration that does not end the loop changes the (offset, cursor)
\* pair the next request sends
C2_Claim ==
    [][(ppc = "call" /\ ppc' = "call" /\ nreq' # nreq)
         => <<offset', cursor'>> # <<offset, cursor>>]_vars

\* C3: an item that is not deleted, no gallery parent without children, not
\* locked and not denied access yields exactly one Directory message, and
\* no Url message comes before it
Passes(d, premRet) ==
    ~d.isDeleted /\ ~d.multiParent /\ ~d.locked /\ (d.pcp => premRet # 0)

StageRank(stage) ==
    IF stage = "directory" THEN 0
    ELSE IF stage \in {"download", "media", "content"} THEN 1
    ELSE IF stage = "video" THEN 2
    ELSE IF stage = "flash" THEN 3
    ELSE IF stage = "journal" THEN 4
    ELSE IF stage = "preview" THEN 5
    ELSE 6

C4_StageOrder ==
    \A i, j \in DOMAIN out :
        i < j => StageRank(out[i].stage) < StageRank(out[j].stage)

\* an item yielded a message at every one of the six steps
C4_Witness ==
    /\ Len(out) = 6
    /\ out[3].stage = "video" /\ out[4].stage = "flash"
    /\ out[5].stage = "journal" /\ out[6].stage = "preview"

\* C5: the loop of items() ends only when every item deviations() delivers
\* has been resolved; an item whose emission step raises does not end the run
C5_Claim == xpc # "running" => remaining = 0

\* C6: after a _fetch_premium call that missed the cache with a credential
\* present, every sibling the gallery fetch returned is cached: as its item
\* when access was granted, as None when it was denied
Granted(env) ==
    \/ ~env.gate
    \/ env.flag
    \/ env.type = "watchers" /\ cfgAutoWatch /\ env.watchOk

C6_SiblingsCached ==
    "gallery" \in premLast.calls =>
        \A s \in premLast.env.sibs :
            /\ s \in DOMAIN premiumCache
            /\ premiumCache[s] = IF Granted(premLast.env) THEN s ELSE 0

\* the cache holds a sibling of a granted folder and one of a denied folder
C6_Witness ==
    /\ "gallery" \in premLast.calls
    /\ ~Granted(premLast.env)
    /\ premLast.env.sibs # {}
    /\ \E s, t \in DOMAIN premiumCache :
           premiumCache[s] = s /\ premiumCache[t] = 0

\* C7: for a reply tree of up to three levels, _extract_comments returns
\* every comment exactly once, and a reply after its parent
AllComments == UNION {Range(cmtPages[a]) : a \in DOMAIN cmtPages}

C7_Flatten ==
    cpc = "done" =>
        /\ Range(results) \subseteq AllComments
        /\ \A c \in AllComments :
               Cardinality({i \in DOMAIN results : results[i].id = c.id}) = 1
        /\ \A i \in DOMAIN results :
               results[i].parent # 0 =>
                   \/ \E j \in 1..(i - 1) : results[j].id = results[i].parent
                   \/ \A j \in DOMAIN results : results[j].id # results[i].parent

\* a tree of three levels and an unexpanded sibling was flattened
C7_Witness ==
    /\ cpc = "done"
    /\ Len(results) = MaxComments
    /\ \E i, j, k \in DOMAIN results :
           /\ results[i].parent = 0
           /\ results[j].parent = results[i].id
           /\ results[k].parent = results[j].id

\* C8: the work-list of _extract_comments eventually empties and the
\* function returns, whatever pages the server answers with
C8_Claim == <>(cpc = "done")

\* C9: a text node's output is the opening tags of its supported marks in
\* mark order, the escaped text, and the closing tags in reverse order; an
\* unsupported mark adds no tag
OpenKind(piece) ==
    IF piece = "<a href=\"" THEN "link"
    ELSE IF piece = "<strong>" THEN "bold"
    ELSE IF piece = "<em>" THEN "italic"
    ELSE IF piece = "<u>" THEN "underline"
    ELSE IF piece = "<s>" THEN "strike"
    ELSE ""

CloseKind(piece) ==
    IF piece = "</a>" THEN "link"
    ELSE IF piece = "</strong>" THEN "bold"
    ELSE IF piece = "</em>" THEN "italic"
    ELSE IF piece = "</u>" THEN "underline"
    ELSE IF piece = "</s>" THEN "strike"
    ELSE ""

SupportedTypes == {"link", "bold", "italic", "underline", "strike"}

RECURSIVE SupportedOf(_)
\* the types of the supported marks, in mark order
SupportedOf(marks) ==
    IF marks = <<>> THEN <<>>
    ELSE (IF Head(marks).type \in SupportedTypes
          THEN <<Head(marks).type>> ELSE <<>>) \o SupportedOf(Tail(marks))

RECURSIVE OpenKinds(_)
\* the marks the opening tags among the pieces belong to, in order
OpenKinds(pieces) ==
    IF pieces = <<>> THEN <<>>
    ELSE (IF OpenKind(Head(pieces)) # ""
          THEN <<OpenKind(Head(pieces))>> ELSE <<>>) \o OpenKinds(Tail(pieces))

C9_MarkStack ==
    tpc = "done" =>
        LET sup  == SupportedOf(textNode.marks)
            n    == Len(sup)
            esc  == Escape(textNode.text)
            k    == Len(textHtml) - n - Len(esc)
            head == SubSeq(textHtml, 1, k)
            mid  == SubSeq(textHtml, k + 1, k + Len(esc))
            tail == SubSeq(textHtml, k + Len(esc) + 1, Len(textHtml))
        IN  /\ k >= 0
            /\ OpenKinds(head) = sup
            /\ \A i \in DOMAIN head : CloseKind(head[i]) = ""
            /\ mid = esc
            /\ \A i \in 1..n : CloseKind(tail[i]) = sup[n + 1 - i]

\* marks [bold, subscript, link]: the link is closed before the bold, the
\* unsupported mark adds nothing
C9_Witness ==
    /\ tpc = "done"
    /\ Len(textNode.marks) = 3
    /\ textNode.marks[1].type = "bold"
    /\ textNode.marks[2].type = "subscript"
    /\ textNode.marks[3].type = "link"
    /\ textHtml[1] = "<strong>"
    /\ SubSeq(textHtml, Len(textHtml) - 1, Len(textHtml)) = <<"</a>", "</strong>">>

\* C10: with a non-empty token list and a variant tagged "fullview", src is
\* the base URI, the fullview template with <prettyName> replaced by the
\* pretty name, "?token=" and the first token
HasTemplate(m) ==
    /\ m.token # <<>>
    /\ m.prettyName.has
    /\ \E i \in DOMAIN m.types :
          /\ m.types[i].t = "fullview"
          /\ m.types[i].c.has
          /\ \A j \in 1..(i - 1) : m.types[j].t # "fullview"

FullviewTemplate(m) ==
    LET i == CHOOSE x \in DOMAIN m.types :
                 /\ m.types[x].t = "fullview"
                 /\ \A j \in 1..(x - 1) : m.types[j].t # "fullview"
    IN  m.types[i].c.s

C11_Claim ==
    (mpc = "done" /\ (media.token = <<>> \/ Fullviews(media.types) = {}))
        => mediaSrc = Returns(media.uri \o
                (IF media.token # <<>>
                 THEN <<"?token=", FirstToken(media.token)>> ELSE <<>>))

\* C12: an item that reaches the emission steps with isDownloadable false,
\* inline media of base URI b whose token list starts with t, and no video,
\* flash, journal or preview yields exactly one Url, and its url is
\* b + "?token=" + t ("https://x/i" and "tok" give "https://x/i?token=tok")
InlineOnly(d) ==
    /\ ~d.isDownloadable /\ d.media = "ok"
    /\ d.videos = <<>> /\ ~d.flash /\ ~d.journal /\ ~d.preview

UrlsOf(msgs) == {i \in DOMAIN msgs : msgs[i].type = "Url"}

C12_MediaUrl ==
    (handled > 0 /\ Passes(item, premLast.ret) /\ InlineOnly(item)) =>
        /\ ~itemRaised
        /\ Cardinality(UrlsOf(out)) = 1
        /\ \A i \in UrlsOf(out) :
               out[i].src = <<"https://x/i", "?token=", "tok">>

\* a gated item with inline media only was granted access and resolved
C12_Witness ==
    /\ handled > 0 /\ item.pcp /\ Passes(item, premLast.ret)
    /\ InlineOnly(item)
    /\ Len(out) = 2
    /\ out[2].src = <<"https://x/i", "?token=", "tok">>

\* C13: an item with a non-empty video list yields one video Url: the variant
\* whose quality label, its suffix stripped and read as an integer, is the
\* largest of the list ("480p", "1080p", "720p" gives "1080p"); the Url is
\* yielded with is_original false
LabelValue(label) ==
    IF label = L480 THEN 480
    ELSE IF label = L720 THEN 720
    ELSE IF label = L1080 THEN 1080
    ELSE 0

VideosOf(msgs) == {i \in DOMAIN msgs : msgs[i].stage = "video"}

C13_VideoMax ==
    (handled > 0 /\ Passes(item, premLast.ret) /\ item.videos # <<>>) =>
        /\ Cardinality(VideosOf(out)) <= 1
        /\ ~itemRaised => Cardinality(VideosOf(out)) = 1
        /\ \A i \in VideosOf(out) :
               /\ out[i].type = "Url"
               /\ out[i].original = "false"
               /\ \E k \in DOMAIN item.videos : item.videos[k] = out[i].quality
               /\ \A k \in DOMAIN item.videos :
                      LabelValue(item.videos[k]) <= LabelValue(out[i].quality)
               /\ item.videos = <<L480, L1080, L720>> => out[i].quality = L1080

\* the list "480p", "1080p", "720p" gave the "1080p" variant, after a
\* primary source and before a flash source
C13_Witness ==
    /\ handled > 0 /\ item.videos = <<L480, L1080, L720>> /\ item.flash
    /\ Len(out) >= 4
    /\ out[2].stage = "media"
    /\ out[3].stage = "video" /\ out[3].quality = L1080
    /\ out[3].original = "false"
    /\ out[4].stage = "flash"

\* C18: the resolution of an item flagged deleted yields no message (no
\* Queue, no Directory, no Url) and ends without an exception
C18_Claim ==
    (handled > 0 /\ item.isDeleted) => (out = <<>> /\ ~itemRaised)

\* C19: an item that is not deleted and is a multi-file gallery parent
\* without its "extended" data yields exactly one Queue message, which
\* carries the item's url, and no Directory and no Url
C19_Requeue ==
    (handled > 0 /\ ~item.isDeleted /\ item.multiParent) =>
        /\ Len(out) = 1
        /\ out[1].type = "Queue"
        /\ out[1].src = <<"deviation.url">>
        /\ ~itemRaised

\* a locked gallery parent with inline media was re-queued
C19_Witness ==
    /\ handled > 0 /\ ~item.isDeleted /\ item.multiParent /\ item.locked
    /\ item.media = "ok"
    /\ Len(out) = 1 /\ out[1].type = "Queue"

\* C20: an item that is not deleted, no gallery parent without children, and
\* whose tierAccess is "locked" yields no message, and its resolution makes
\* no _fetch_premium call and no deviation_download request
C20_Locked ==
    (handled > 0 /\ ~item.isDeleted /\ ~item.multiParent /\ item.locked) =>
        /\ out = <<>>
        /\ premCalls = 0
        /\ premLast = NoCall

\* a locked item with a pcp entry and inline media was resolved
C20_Witness ==
    /\ handled > 0 /\ ~item.isDeleted /\ ~item.multiParent /\ item.locked
    /\ item.pcp /\ item.media = "ok" /\ item.idKey
    /\ out = <<>> /\ ~itemRaised

\* C14 (as claimed): once a response has carried a next-cursor, every later
\* request of the run has a null offset and a cursor; the run never goes
\* back to paging by offset
C14_Claim ==
    [][(cursor # NULL /\ ppc = "call" /\ ppc' = "call")
           => (offset' = NULL /\ cursor' # NULL)]_vars

\* C14 (amended): the request that follows a response carrying a next-cursor
\* has a null offset and that cursor; a run paging by cursor goes back to
\* paging by offset exactly when a response carries a next-offset and no
\* next-cursor
C14_CursorNext ==
    [][/\ (nreq' # nreq /\ lastPage'.present /\ lastPage'.hasMore
              /\ lastPage'.sig = "cursor")
          => (ppc' = "call" /\ offset' = NULL /\ cursor' = lastPage'.next)
       /\ (cursor # NULL /\ nreq' # nreq /\ ppc' = "call")
          => ((offset' # NULL) <=> (lastPage'.sig = "offset"))]_vars

\* the second request paged by cursor and its response carried a
\* next-cursor again
C14_Witness ==
    /\ nreq = 2 /\ ppc = "call"
    /\ lastPage.sig = "cursor" /\ Position(NULL, cursor) = 2 * PageSize
    /\ offset = NULL

C16_WarnOnce ==
    [][warnings' # warnings =>
          /\ warnings = 0 /\ warnings' = 1
          /\ Len(lastPage'.results) < PageSize
          /\ lastPage'.hasMore]_vars

\* a second short page with hasMore true was handled after the warning
C16_Witness ==
    /\ warnings = 1 /\ nreq >= 2 /\ ppc = "call"
    /\ lastPage.present /\ lastPage.hasMore
    /\ Len(lastPage.results) < PageSize
    /\ Len(yielded) - Len(lastPage.results) < PageSize

\* C17: a response without the results collection ends the run: nothing is
\* yielded for it, no exception is raised and no further request is issued;
\* when it is the first response nothing at all was yielded
C17_MissingEnds ==
    [][/\ (nreq' # nreq /\ ~lastPage'.present)
          => /\ ppc' = "done"
             /\ yielded' = yielded
             /\ nreq = 0 => yielded' = <<>>
       /\ missing => nreq' = nreq]_vars

\* the second response lacked the results collection, after a page of items
C17_Witness ==
    /\ nreq = 2 /\ ~lastPage.present /\ missing /\ ppc = "done"
    /\ Len(yielded) = PageSize

\* C21: an item with a pcp entry that gets past the deleted, gallery-parent
\* and locked checks is handed to _fetch_premium before anything is yielded,
\* and when _fetch_premium returns None nothing is yielded for the item
C21_GatedFirst ==
    (handled > 0 /\ AsksPremium(item)) =>
        /\ premCalls = 1
        /\ premLast # NoCall
        /\ premLast.ret = 0 => (out = <<>> /\ ~itemRaised)
        /\ out # <<>> => premLast.ret # 0

\* a gated item with inline media was denied by its gate, after the detail
\* and gallery fetches
C21_Witness ==
    /\ handled > 0 /\ AsksPremium(item) /\ item.media = "ok"
    /\ premLast.calls # {} /\ ~premLast.access /\ premLast.ret = 0
    /\ out = <<>>

\* C22: an item with isDownloadable set and a uuid yields the download
\* source as the first Url after the Directory, with is_original true, and
\* yields neither its inline media nor its inline content
C22_Download ==
    (handled > 0 /\ Passes(item, premLast.ret)
        /\ item.isDownloadable /\ item.uuid) =>
        /\ Len(out) >= 2
        /\ out[1].type = "Directory"
        /\ out[2].type = "Url" /\ out[2].stage = "download"
        /\ out[2].original = "true"
        /\ \A i \in DOMAIN out : out[i].stage \notin {"media", "content"}

\* a downloadable item that also has inline media yielded its download
C22_Witness ==
    /\ handled > 0 /\ item.isDownloadable /\ item.uuid /\ item.media = "ok"
    /\ Len(out) = 2
    /\ out[2].stage = "download" /\ out[2].original = "true"

\* C23: a _fetch_premium call for an id that has a cache entry (an item or
\* None) returns that entry and makes no detail fetch, no watch call and no
\* gallery fetch, and leaves the cache as it was
C23_CacheHit ==
    [][(premCalls' # premCalls /\ premLast'.id \in DOMAIN premiumCache) =>
          /\ premLast'.ret = premiumCache[premLast'.id]
          /\ premLast'.calls = {}
          /\ premiumCache' = premiumCache
          /\ unwatch' = unwatch]_vars

\* a second call for an id cached as an item returned the cached item
C23_Witness ==
    /\ premCalls >= 2 /\ premLast.hit /\ premLast.ret # 0
    /\ premLast.calls = {}
    /\ premLast.id \in DOMAIN premLast.before
    /\ premiumCache = premLast.before

\* C24: a cache miss without a credential disables _fetch_premium for the
\* rest of the run: that call and every later call return None without a
\* remote request, and the warning is logged once in the whole run
C24_Disabled ==
    [][premCalls' # premCalls =>
          /\ (~cfgToken /\ ~premDisabled /\ premLast'.id \notin DOMAIN premiumCache)
                => (premDisabled' /\ premWarned' = premWarned + 1)
          /\ (premDisabled \/ premDisabled')
                => /\ premDisabled'
                   /\ premLast'.ret = 0 /\ premLast'.calls = {}
                   /\ premWarned' = 1
                   /\ premiumCache' = premiumCache]_vars

\* a third call after the one that disabled the path, one warning in all
C24_Witness ==
    /\ premCalls = 3 /\ premDisabled /\ premWarned = 1
    /\ premLast.ret = 0 /\ premLast.calls = {}

\* C25: in a call that fetches the detail, the watch attempt is made exactly
\* when access is not granted by the detail (the gate is in the detail and
\* its has_access is false), the gate type is "watchers" and auto-watch is
\* on; without a watch attempt access is granted exactly when the gate is
\* absent from the detail or its has_access is true
C25_HasAccess ==
    ("deviation" \in premLast.calls) =>
        LET granted == ~premLast.env.gate \/ premLast.env.flag
        IN  /\ ("watch" \in premLast.calls) <=>
                   (~granted /\ premLast.env.type = "watchers" /\ cfgAutoWatch)
            /\ ("watch" \notin premLast.calls) => (premLast.access <=> granted)
            /\ granted => premLast.access

\* the detail no longer carries the gate, whose flag says no access
C25_Witness ==
    /\ "deviation" \in premLast.calls
    /\ ~premLast.env.gate /\ ~premLast.env.flag
    /\ premLast.access /\ premLast.ret # 0
    /\ "watch" \notin premLast.calls

\* C26: with access denied, a gate of type "watchers" and auto-watch on, the
\* watch is attempted; when it succeeds access is granted and the username
\* is recorded for the unwatch at the end, when it fails access stays
\* denied; a username is in self.unwatch only if a watch of it succeeded
C26_Claim ==
    [][premCalls' # premCalls =>
          /\ ("watch" \in premLast'.calls) => (premLast'.access <=> premLast'.env.watchOk)
          /\ unwatch' # unwatch =>
                ("watch" \in premLast'.calls /\ premLast'.env.watchOk)]_vars

\* C27: a _limited_request call made less than 2 seconds after the shared
\* _last_request asks self.sleep for the remainder of the 2 seconds (and for
\* nothing otherwise), and its request starts at least 2 seconds after the
\* _last_request recorded by the previous call, of whichever instance
C27_Throttle ==
    [][thrCalls' # thrCalls =>
          LET diff == now - lastRequest
          IN  /\ diff < MinInterval => thrAsked' = MinInterval - diff
              /\ diff >= MinInterval => thrAsked' = 0
              /\ thrStart' >= lastRequest + MinInterval
              /\ lastRequest' >= thrStart']_vars

\* a call of one instance right after the request of the other one slept
C27_Witness ==
    /\ thrCalls >= 2
    /\ thrInst[thrCalls] # thrInst[thrCalls - 1]
    /\ thrPrev > 0 /\ thrAsked > 0
    /\ thrStart >= thrPrev + thrAsked

\* the characters text.escape replaces
Special == {"<", "&"}

\* C28: when the rendering is over, no character of a value of the document
\* is in the output unescaped: every piece that is a special character has
\* been replaced by its entity
C28_Claim ==
    rpc = "done" => \A i \in DOMAIN rHtml : rHtml[i] \notin Special

RECURSIVE Known(_)
\* the tree without the nodes whose type has no branch
Known(blocks) ==
    IF blocks = <<>> THEN <<>>
    ELSE IF Head(blocks).type \notin Vocabulary THEN Known(Tail(blocks))
    ELSE <<[Head(blocks) EXCEPT !.children = Known(@)]>> \o Known(Tail(blocks))

\* a paragraph that has children, all of them of unknown type
Hollow(content) ==
    /\ content.type = "paragraph"
    /\ content.children # <<>>
    /\ Known(content.children) = <<>>

\* C29 as stated: the output is the rendering of the tree without its
\* unknown nodes
C29_Claim ==
    rpc = "done" => rHtml = ToHtml(Known(doc))

\* C29: processing a block of unknown type appends nothing and logs one
\* warning, and the blocks after it are processed; the output is the
\* rendering of the tree without its unknown nodes unless some paragraph has
\* children that are all unknown (it renders as an opened and closed <p
\* style>, while the childless paragraph renders as the empty-p placeholder)
C29_Unknown ==
    [][/\ (rDone' # rDone /\ doc[rDone'].type \notin Vocabulary) =>
             (rHtml' = rHtml /\ rWarnings' = rWarnings + 1 /\ rpc' = "loop")
       /\ (rpc' = "done" /\ \A i \in DOMAIN doc : ~Hollow(doc[i])) =>
             rHtml' = ToHtml(Known(doc))
       /\ (rpc' = "done" /\ Len(doc) = 1 /\ Hollow(doc[1])) =>
             /\ rHtml'[2] = "<p style=\""
             /\ rHtml'[Len(rHtml') - 1] = "</p>"
             /\ ToHtml(Known(doc))[2] = "<p class=\"empty-p\"><br/></p>"]_vars

\* an unknown block was skipped and the paragraph after it, which has an
\* unknown child after a text, was rendered
C29_Witness ==
    /\ rpc = "done" /\ Len(doc) = 2
    /\ doc[1].type = "table"
    /\ doc[2].type = "paragraph" /\ Len(doc[2].children) = 2
    /\ doc[2].children[1].type = "text" /\ doc[2].children[2].type = "table"
    /\ rWarnings = 2
    /\ rHtml = ToHtml(Known(doc))
    /\ Len(rHtml) > 2

\* the extension is set: neither None nor the empty string
ExtensionSet(d) == d.extension.has /\ d.extension.s # <<>>

\* C30: deriving the extension of what a derivation produced gives the same
\* value again, a run of the validator leaves a set extension as it is, and
\* so does a second run after a first one that derived it
C30_Idempotent ==
    [][extRuns' # extRuns =>
          LET once == [extMedia EXCEPT !.extension = DeriveExtension(extMedia)]
          IN  /\ DeriveExtension(once) = once.extension
              /\ ExtensionSet(extMedia) => extMedia'.extension = extMedia.extension
              /\ extRuns >= 1 => extMedia'.extension = extMedia.extension]_vars

\* the payload carried no extension, the first run took "gz" from the uri
\* and the second run kept it
C30_Witness ==
    /\ extRuns = 2 /\ ~extRaised
    /\ ~extInitial.has
    /\ extMedia.extension = [has |-> TRUE, s |-> <<"gz">>]

\* a Url of the preview step is among the messages
PreviewYielded == \E i \in DOMAIN out : out[i].stage = "preview"

\* the primary step of the item does not raise
PrimaryReads(d) == d.media # "notoken" /\ d.content # "nokey"

\* C31: for an item that reaches the emission steps, the preview Url is
\* yielded exactly when previews are on, the item has a preview, and it is
\* not so that previews are restricted to non-image types while the
\* extension of the primary source is an image type (and no video, flash or
\* journal Url came after the primary one)
C31_Claim ==
    (handled > 0 /\ Passes(item, premLast.ret) /\ PrimaryReads(item)) =>
        /\ ~itemRaised
        /\ PreviewYielded <=>
               /\ cfgPreviews # "off"
               /\ item.preview
               /\ ~(cfgPreviews = "nonimage" /\ item.extKind = "image"
                       /\ item.videos = <<>> /\ ~item.flash
                       /\ ~(cfgJournal /\ item.journal))

\* C32: a _fetch_premium call of one instance looks only into that
\* instance's cache and leaves the caches (and the other premium fields) of
\* the other instances as they were, and no id ever leaves a cache
C32_OwnCache ==
    [][coCalls' # coCalls =>
          LET i == coLast'.inst
          IN  /\ \A j \in Instances \ {i} : coState'[j] = coState[j]
              /\ \A j \in Instances :
                     DOMAIN coState[j].cache \subseteq DOMAIN coState'[j].cache
              /\ coLast'.hit <=> (coLast'.id \in DOMAIN coState[i].cache)
              /\ coLast'.hit => coLast'.ret = coState[i].cache[coLast'.id]]_vars

\* e2 asked for an id that e1 has cached and did not find it in its own
\* cache
C32_Witness ==
    /\ coCalls >= 2
    /\ coLast.inst = "e2" /\ coLast.id = 1 /\ ~coLast.hit
    /\ 1 \in DOMAIN coLast.before["e1"].cache
    /\ coLast.before["e1"].cache[1] = 1
    /\ coState["e1"] = coLast.before["e1"]

\* every node of the tree has a type of the vocabulary
AllKnown(blocks) == Known(blocks) = blocks

\* C33: for a document whose node types all belong to the vocabulary the
\* rendering does not raise, it ends with the html of the document, which
\* depends on nothing but the document, and the document is as it was
C33_Claim ==
    AllKnown(doc) =>
        /\ rpc # "raised"
        /\ rpc = "done" => rHtml = ToHtml(doc)

Open(tag) == [open |-> TRUE, tag |-> tag]
Close(tag) == [open |-> FALSE, tag |-> tag]

\* the elements a piece of the output opens and closes, in order; the
\* characters of document values and the pieces that are balanced in
\* themselves give none
TagEvents(piece) ==
    IF piece \in {DivOpen, "<div class=\"jjNX2\">",
                  "<div class=\"_32Hs4\" style=\"width:350px\">",
                  "<div data-da-type=\"da-gif\" data-width=\"",
                  "<div data-testid=\"video\" ... data-src=\""}
    THEN <<Open("div")>>
    ELSE IF piece = "</div>" THEN <<Close("div")>>
    ELSE IF piece = "<p style=\"" THEN <<Open("p")>>
    ELSE IF piece = "</p>" THEN <<Close("p")>>
    ELSE IF piece = "<h" THEN <<Open("h")>>
    ELSE IF piece = "<span style=\"" THEN <<Open("span")>>
    ELSE IF piece = "</span></h" THEN <<Close("span"), Close("h")>>
    ELSE IF piece \in {"<li>", "<ul>", "<ol>", "<blockquote>"}
    THEN <<Open(piece)>>
    ELSE IF piece = "</li>" THEN <<Close("<li>")>>
    ELSE IF piece = "</ul>" THEN <<Close("<ul>")>>
    ELSE IF piece = "</ol>" THEN <<Close("<ol>")>>
    ELSE IF piece = "</blockquote>" THEN <<Close("<blockquote>")>>
    ELSE IF piece \in {"<a id=\"", "<a href=\"",
                       "<a href=\"https://www.deviantart.com/"}
    THEN <<Open("a")>>
    ELSE IF piece \in {"</a>", "\" data-testid=\"anchor\"></a>"}
    THEN <<Close("a")>>
    ELSE IF piece = "<figure class=\"Qf-HY\" ...>" THEN <<Open("figure")>>
    ELSE IF piece = "</figure></div>" THEN <<Close("figure"), Close("div")>>
    ELSE IF piece = "<section class=\"Q91qI aG7Yi\" ...>"
    THEN <<Open("section"), Open("h3")>>
    ELSE IF piece = "</h3><div class=\"_2CPLm\">"
    THEN <<Close("h3"), Open("div")>>
    ELSE IF piece = "</div></section></a></div>"
    THEN <<Close("div"), Close("section"), Close("a"), Close("div")>>
    ELSE IF piece = "\" class=\"t61qu\"><video role=\"img\" ... width=\""
    THEN <<Open("video")>>
    ELSE IF piece = "\" class=\"_1Fkk6\"></video></div>"
    THEN <<Close("video"), Close("div")>>
    ELSE IF piece = "\" class=\"_1Uxvs\">...<video src=\""
    THEN <<Open("div"), Open("div"), Open("video")>>
    ELSE IF piece = "\" style=\"width:100%;height:100%;\" ...></video></div></div></div>"
    THEN <<Close("video"), Close("div"), Close("div"), Close("div")>>
    ELSE IF piece = "<strong>" THEN <<Open("strong")>>
    ELSE IF piece = "</strong>" THEN <<Close("strong")>>
    ELSE IF piece = "<em>" THEN <<Open("em")>>
    ELSE IF piece = "</em>" THEN <<Close("em")>>
    ELSE IF piece = "<u>" THEN <<Open("u")>>
    ELSE IF piece = "</u>" THEN <<Close("u")>>
    ELSE IF piece = "<s>" THEN <<Open("s")>>
    ELSE IF piece = "</s>" THEN <<Close("s")>>
    ELSE <<>>

RECURSIVE EventsOf(_)
EventsOf(html) ==
    IF html = <<>> THEN <<>> ELSE TagEvents(Head(html)) \o EventsOf(Tail(html))

Unbalanced == <<"!">>

RECURSIVE OpenAfter(_, _)
\* the elements left open after the events, innermost first, or Unbalanced
\* when an element is closed that is not the innermost open one
OpenAfter(events, stack) ==
    IF events = <<>> THEN stack
    ELSE IF Head(events).open
    THEN OpenAfter(Tail(events), <<Head(events).tag>> \o stack)
    ELSE IF stack # <<>> /\ Head(stack) = Head(events).tag
    THEN OpenAfter(Tail(events), Tail(stack))
    ELSE Unbalanced

\* C40: after every block of the document only the outer div is open, and
\* the finished output has every element closed, each one after the
\* elements opened inside it
C40_Balanced ==
    /\ rpc = "loop" => OpenAfter(EventsOf(rHtml), <<>>) = <<"div">>
    /\ rpc = "done" => OpenAfter(EventsOf(rHtml), <<>>) = <<>>

\* a paragraph with a text under two marks and a mention, then an embedded
\* journal: elements three deep, all closed
C40_Witness ==
    /\ rpc = "done" /\ Len(doc) = 2
    /\ doc[1].type = "paragraph" /\ Len(doc[1].children) = 2
    /\ Len(doc[1].children[1].marks) = 2
    /\ doc[1].children[2].type = "da-mention"
    /\ doc[2].type = "da-deviation"
    /\ Len(EventsOf(rHtml)) >= 20
    /\ OpenAfter(EventsOf(rHtml), <<>>) = <<>>

\* C36: the is_original of a Url whose step does not set it (the inline
\* media, the inline content, the preview) is the value commit derives from
\* that Url's own source, whatever was yielded for the item before
C36_Claim ==
    \A i \in DOMAIN out :
        (out[i].type = "Url" /\ out[i].stage \in {"media", "content", "preview"})
            => out[i].original = "byurl"

\* C37: a call that reaches the gallery fetch with access granted, by the
\* detail or by a watch that succeeded, returns an item
C37_Claim ==
    ("gallery" \in premLast.calls /\ premLast.access) => premLast.ret # 0

\* C38: with auto-unwatch on, no username is twice in self.unwatch
C38_Claim ==
    cfgAutoUnwatch => NoDuplicates(unwatch)

\* the page the journal is taken from
JournalPage == IF jItem.inline # AbsentPage THEN jItem.inline ELSE jItem.remote

C35_Claim ==
    (ctpc = "done" /\ ctRet.branch \in {"token", "rewrite"}
        /\ ctRet.src # ctItem.src) =>
        ctRet.fallback = Fallback(ctItem.src)

\* C39: of a multi-image deviation with N additional files the k-th item
\* handed to the resolution has num = k and count = N + 1; the first has
\* index_file 0, the k-th (k > 1) has the media and the fileId of the
\* (k-1)-th additional file, is not downloadable and does not take the
\* download path; when deviations() is over, N + 1 items were handed over
C39_Gallery ==
    galDev.multi =>
        /\ \A k \in DOMAIN galYielded :
              LET y == galYielded[k].dev
              IN  /\ y.num = k
                  /\ y.count = Len(galFiles) + 1
                  /\ k = 1 => (y.index_file = 0 /\ y.media = 0)
                  /\ k > 1 => /\ y.index_file = galFiles[k - 1]
                              /\ y.media = galFiles[k - 1]
                              /\ ~y.isDownloadable
                              /\ galYielded[k].path # "download"
        /\ galpc = "done" => Len(galYielded) = Len(galFiles) + 1

\* a downloadable deviation with two additional files: the primary file
\* took the download path, the two others did not
C39_Witness ==
    /\ galpc = "done" /\ galDev.multi /\ Len(galFiles) = 2
    /\ Len(galYielded) = 3
    /\ galYielded[1].path = "download"
    /\ galYielded[2].path = "media" /\ galYielded[3].path = "media"
    /\ galYielded[3].dev.num = 3 /\ galYielded[3].dev.count = 3

====
